---- MODULE Spec2Model ----
(***************************************************************************)
(* State-machine model of the spine2d-animation-mcp pipeline:              *)
(*   psd_parser.py          import of a layered image into a character     *)
(*   spine2d_integration.py rigging (structure inference, skeleton, skin,  *)
(*                          IK) and export (conversion, merge, write)      *)
(*   animation_generator.py description parsing and animation synthesis    *)
(*   server.py              the line-delimited request loop                *)
(*                                                                         *)
(* Modelling conventions                                                   *)
(*  - Python floats are modelled as exact rationals <<n, d>> in lowest     *)
(*    terms with d > 0: rounding is left out.                              *)
(*  - Python str values that the code searches with "in" or lower-cases    *)
(*    are sequences of one-character strings; dictionary keys that are     *)
(*    only looked up are TLA+ strings.                                     *)
(*  - uuid4() is modelled as a fresh number per kind of artifact; the      *)
(*    timestamps written into metadata are left out.                       *)
(*  - A directory of the storage tree is a sequence of its entries in      *)
(*    creation order; os.listdir's order is a nondeterministic choice.     *)
(***************************************************************************)
EXTENDS Integers, Sequences, FiniteSets, TLC

VARIABLES
    templates,   \* AnimationGenerator.templates
    emotions,    \* AnimationGenerator.emotions
    files,       \* the layered image files the caller can import
    texts,       \* the request texts the caller can send
    characters,  \* storage/characters: one metadata.json per entry
    rigs,        \* storage/rigs: metadata.json and spine_project.json
    animations,  \* storage/animations: metadata.json and animation.json
    exports,     \* storage/exports: metadata.json and the exported file
    ret,         \* outcome of the last call of a core operation
    pc,          \* McpServer.run: "read", "process", "stopped", "crashed"
    cur,         \* the request being processed
    out          \* the responses written to stdout, in order

vars == <<templates, emotions, files, texts, characters, rigs, animations,
          exports, ret, pc, cur, out>>


(***************************************************************************)
(* Exact rational arithmetic standing for Python float arithmetic.         *)
(***************************************************************************)
Abs(n) == IF n < 0 THEN -n ELSE n

RECURSIVE GCD(_, _)
GCD(a, b) == IF b = 0 THEN a ELSE GCD(b, a % b)

Rat(n, d) ==
    LET s == IF d < 0 THEN -1 ELSE 1
        g == GCD(Abs(n), Abs(d))
    IN  IF n = 0 THEN <<0, 1>> ELSE <<(s * n) \div g, (s * d) \div g>>

Num(n) == <<n, 1>>
Dec(n) == Rat(n, 10)          \* the decimal literal n/10
Zero == Num(0)
One == Num(1)

RatAdd(a, b) == Rat(a[1] * b[2] + b[1] * a[2], a[2] * b[2])
RatSub(a, b) == Rat(a[1] * b[2] - b[1] * a[2], a[2] * b[2])
RatMul(a, b) == Rat(a[1] * b[1], a[2] * b[2])
RatDiv(a, b) == Rat(a[1] * b[2], a[2] * b[1])
RatLeq(a, b) == a[1] * b[2] <= b[1] * a[2]
RatLt(a, b) == a[1] * b[2] < b[1] * a[2]
RatMin(a, b) == IF RatLeq(a, b) THEN a ELSE b
RatMax(a, b) == IF RatLeq(b, a) THEN a ELSE b

(***************************************************************************)
(* Strings as sequences of characters: str.lower(), "a in b", str.replace  *)
(***************************************************************************)
UpperAlphabet ==
    <<"A", "B", "C", "D", "E", "F", "G", "H", "I", "J", "K", "L", "M",
      "N", "O", "P", "Q", "R", "S", "T", "U", "V", "W", "X", "Y", "Z">>
LowerAlphabet ==
    <<"a", "b", "c", "d", "e", "f", "g", "h", "i", "j", "k", "l", "m",
      "n", "o", "p", "q", "r", "s", "t", "u", "v", "w", "x", "y", "z">>

LowerChar(c) ==
    IF \E i \in 1..Len(UpperAlphabet) : UpperAlphabet[i] = c
    THEN LowerAlphabet[CHOOSE i \in 1..Len(UpperAlphabet) : UpperAlphabet[i] = c]
    ELSE c

Lower(s) == [i \in 1..Len(s) |-> LowerChar(s[i])]

\* Python's  w in s  for two strings
IsSubstring(w, s) ==
    \E i \in 0..(Len(s) - Len(w)) : \A j \in 1..Len(w) : s[i + j] = w[j]

Space == <<" ">>

\* " ".join(ws) over the non-empty words of ws
RECURSIVE Join(_)
Join(ws) ==
    IF ws = <<>> THEN <<>>
    ELSE IF Head(ws) = <<>> THEN Join(Tail(ws))
    ELSE LET rest == Join(Tail(ws))
         IN  IF rest = <<>> THEN Head(ws) ELSE Head(ws) \o Space \o rest

MinOf(S) == CHOOSE x \in S : \A y \in S : x <= y

\* the spelling of each word the model uses, character by character
Str ==
    [ wave |-> <<"w", "a", "v", "e">>,
      jump |-> <<"j", "u", "m", "p">>,
      walk |-> <<"w", "a", "l", "k">>,
      run |-> <<"r", "u", "n">>,
      idle |-> <<"i", "d", "l", "e">>,
      happy |-> <<"h", "a", "p", "p", "y">>,
      sad |-> <<"s", "a", "d">>,
      angry |-> <<"a", "n", "g", "r", "y">>,
      scared |-> <<"s", "c", "a", "r", "e", "d">>,
      excited |-> <<"e", "x", "c", "i", "t", "e", "d">>,
      very |-> <<"v", "e", "r", "y">>,
      extremely |-> <<"e", "x", "t", "r", "e", "m", "e", "l", "y">>,
      slightly |-> <<"s", "l", "i", "g", "h", "t", "l", "y">>,
      barely |-> <<"b", "a", "r", "e", "l", "y">>,
      incredibly |-> <<"i", "n", "c", "r", "e", "d", "i", "b", "l", "y">>,
      super |-> <<"s", "u", "p", "e", "r">>,
      little |-> <<"l", "i", "t", "t", "l", "e">>,
      sparkle |-> <<"s", "p", "a", "r", "k", "l", "e">>,
      magic |-> <<"m", "a", "g", "i", "c">>,
      fire |-> <<"f", "i", "r", "e">>,
      water |-> <<"w", "a", "t", "e", "r">>,
      splash |-> <<"s", "p", "l", "a", "s", "h">>,
      head |-> <<"h", "e", "a", "d">>,
      face |-> <<"f", "a", "c", "e">>,
      hair |-> <<"h", "a", "i", "r">>,
      body |-> <<"b", "o", "d", "y">>,
      torso |-> <<"t", "o", "r", "s", "o">>,
      chest |-> <<"c", "h", "e", "s", "t">>,
      arm_right |-> <<"a", "r", "m", "_", "r", "i", "g", "h", "t">>,
      right_arm |-> <<"r", "i", "g", "h", "t", "_", "a", "r", "m">>,
      rightarm |-> <<"r", "i", "g", "h", "t", "a", "r", "m">>,
      arm_left |-> <<"a", "r", "m", "_", "l", "e", "f", "t">>,
      left_arm |-> <<"l", "e", "f", "t", "_", "a", "r", "m">>,
      leftarm |-> <<"l", "e", "f", "t", "a", "r", "m">>,
      hand_right |-> <<"h", "a", "n", "d", "_", "r", "i", "g", "h", "t">>,
      right_hand |-> <<"r", "i", "g", "h", "t", "_", "h", "a", "n", "d">>,
      righthand |-> <<"r", "i", "g", "h", "t", "h", "a", "n", "d">>,
      hand_left |-> <<"h", "a", "n", "d", "_", "l", "e", "f", "t">>,
      left_hand |-> <<"l", "e", "f", "t", "_", "h", "a", "n", "d">>,
      lefthand |-> <<"l", "e", "f", "t", "h", "a", "n", "d">>,
      leg_right |-> <<"l", "e", "g", "_", "r", "i", "g", "h", "t">>,
      right_leg |-> <<"r", "i", "g", "h", "t", "_", "l", "e", "g">>,
      rightleg |-> <<"r", "i", "g", "h", "t", "l", "e", "g">>,
      leg_left |-> <<"l", "e", "g", "_", "l", "e", "f", "t">>,
      left_leg |-> <<"l", "e", "f", "t", "_", "l", "e", "g">>,
      leftleg |-> <<"l", "e", "f", "t", "l", "e", "g">>,
      foot_right |-> <<"f", "o", "o", "t", "_", "r", "i", "g", "h", "t">>,
      right_foot |-> <<"r", "i", "g", "h", "t", "_", "f", "o", "o", "t">>,
      rightfoot |-> <<"r", "i", "g", "h", "t", "f", "o", "o", "t">>,
      foot_left |-> <<"f", "o", "o", "t", "_", "l", "e", "f", "t">>,
      left_foot |-> <<"l", "e", "f", "t", "_", "f", "o", "o", "t">>,
      leftfoot |-> <<"l", "e", "f", "t", "f", "o", "o", "t">>,
      waving |-> <<"w", "a", "v", "i", "n", "g">>,
      Jump |-> <<"J", "u", "m", "p">>,
      every |-> <<"e", "v", "e", "r", "y">>,
      unhappy |-> <<"u", "n", "h", "a", "p", "p", "y">>,
      brunch |-> <<"b", "r", "u", "n", "c", "h">>,
      hello |-> <<"h", "e", "l", "l", "o">>,
      with |-> <<"w", "i", "t", "h">>,
      sparkles |-> <<"s", "p", "a", "r", "k", "l", "e", "s">>,
      Sparkle |-> <<"S", "p", "a", "r", "k", "l", "e">>,
      Right_Arm |-> <<"R", "i", "g", "h", "t", "_", "A", "r", "m">>,
      RightHand |-> <<"R", "i", "g", "h", "t", "H", "a", "n", "d">>,
      Left_Arm |-> <<"L", "e", "f", "t", "_", "A", "r", "m">>,
      LeftHand |-> <<"L", "e", "f", "t", "H", "a", "n", "d">>,
      Right_Leg |-> <<"R", "i", "g", "h", "t", "_", "L", "e", "g">>,
      RightFoot |-> <<"R", "i", "g", "h", "t", "F", "o", "o", "t">>,
      Left_Leg |-> <<"L", "e", "f", "t", "_", "L", "e", "g">>,
      LeftFoot |-> <<"L", "e", "f", "t", "F", "o", "o", "t">>,
      Body |-> <<"B", "o", "d", "y">>,
      Head |-> <<"H", "e", "a", "d">>,
      Background |-> <<"B", "a", "c", "k", "g", "r", "o", "u", "n", "d">>,
      Shadow |-> <<"S", "h", "a", "d", "o", "w">>,
      Arms |-> <<"A", "r", "m", "s">>,
      arm |-> <<"a", "r", "m">>,
      hand |-> <<"h", "a", "n", "d">>,
      leg |-> <<"l", "e", "g">>,
      foot |-> <<"f", "o", "o", "t">> ]

Template_wave ==
    [name |-> "Wave", duration |-> Dec(20),
     keyframes |-> [
        arm_right |-> <<
            [time |-> Dec(0), rotation |-> Num(0), x |-> Num(0), y |-> Num(0)],
            [time |-> Dec(5), rotation |-> Num(45), x |-> Num(10), y |-> Num(-20)],
            [time |-> Dec(10), rotation |-> Num(-15), x |-> Num(15), y |-> Num(-15)],
            [time |-> Dec(15), rotation |-> Num(45), x |-> Num(10), y |-> Num(-20)],
            [time |-> Dec(20), rotation |-> Num(0), x |-> Num(0), y |-> Num(0)] >>,
        hand_right |-> <<
            [time |-> Dec(0), rotation |-> Num(0)],
            [time |-> Dec(5), rotation |-> Num(15)],
            [time |-> Dec(10), rotation |-> Num(-10)],
            [time |-> Dec(15), rotation |-> Num(15)],
            [time |-> Dec(20), rotation |-> Num(0)] >>,
        face |-> <<
            [time |-> Dec(0), expression |-> "neutral"],
            [time |-> Dec(20), expression |-> "neutral"] >> ]]

Template_jump ==
    [name |-> "Jump", duration |-> Dec(15),
     keyframes |-> [
        root |-> <<
            [time |-> Dec(0), y |-> Num(0)],
            [time |-> Dec(7), y |-> Num(100)],
            [time |-> Dec(15), y |-> Num(0)] >>,
        leg_left |-> <<
            [time |-> Dec(0), rotation |-> Num(0)],
            [time |-> Dec(3), rotation |-> Num(-15)],
            [time |-> Dec(7), rotation |-> Num(10)],
            [time |-> Dec(12), rotation |-> Num(-20)],
            [time |-> Dec(15), rotation |-> Num(0)] >>,
        leg_right |-> <<
            [time |-> Dec(0), rotation |-> Num(0)],
            [time |-> Dec(3), rotation |-> Num(-15)],
            [time |-> Dec(7), rotation |-> Num(10)],
            [time |-> Dec(12), rotation |-> Num(-20)],
            [time |-> Dec(15), rotation |-> Num(0)] >>,
        face |-> <<
            [time |-> Dec(0), expression |-> "neutral"],
            [time |-> Dec(7), expression |-> "excited"],
            [time |-> Dec(15), expression |-> "neutral"] >> ]]

Template_walk ==
    [name |-> "Walk", duration |-> Dec(12),
     keyframes |-> [
        root |-> <<
            [time |-> Dec(0), x |-> Num(0)],
            [time |-> Dec(12), x |-> Num(50)] >>,
        leg_left |-> <<
            [time |-> Dec(0), rotation |-> Num(0)],
            [time |-> Dec(3), rotation |-> Num(20)],
            [time |-> Dec(6), rotation |-> Num(0)],
            [time |-> Dec(9), rotation |-> Num(-20)],
            [time |-> Dec(12), rotation |-> Num(0)] >>,
        leg_right |-> <<
            [time |-> Dec(0), rotation |-> Num(-20)],
            [time |-> Dec(3), rotation |-> Num(0)],
            [time |-> Dec(6), rotation |-> Num(20)],
            [time |-> Dec(9), rotation |-> Num(0)],
            [time |-> Dec(12), rotation |-> Num(-20)] >>,
        arm_left |-> <<
            [time |-> Dec(0), rotation |-> Num(-10)],
            [time |-> Dec(6), rotation |-> Num(10)],
            [time |-> Dec(12), rotation |-> Num(-10)] >>,
        arm_right |-> <<
            [time |-> Dec(0), rotation |-> Num(10)],
            [time |-> Dec(6), rotation |-> Num(-10)],
            [time |-> Dec(12), rotation |-> Num(10)] >>,
        face |-> <<
            [time |-> Dec(0), expression |-> "neutral"],
            [time |-> Dec(12), expression |-> "neutral"] >> ]]

Template_run ==
    [name |-> "Run", duration |-> Dec(8),
     keyframes |-> [
        root |-> <<
            [time |-> Dec(0), x |-> Num(0), y |-> Num(0)],
            [time |-> Dec(2), x |-> Num(15), y |-> Num(10)],
            [time |-> Dec(4), x |-> Num(30), y |-> Num(0)],
            [time |-> Dec(6), x |-> Num(45), y |-> Num(10)],
            [time |-> Dec(8), x |-> Num(60), y |-> Num(0)] >>,
        leg_left |-> <<
            [time |-> Dec(0), rotation |-> Num(-30)],
            [time |-> Dec(2), rotation |-> Num(0)],
            [time |-> Dec(4), rotation |-> Num(30)],
            [time |-> Dec(6), rotation |-> Num(0)],
            [time |-> Dec(8), rotation |-> Num(-30)] >>,
        leg_right |-> <<
            [time |-> Dec(0), rotation |-> Num(30)],
            [time |-> Dec(2), rotation |-> Num(0)],
            [time |-> Dec(4), rotation |-> Num(-30)],
            [time |-> Dec(6), rotation |-> Num(0)],
            [time |-> Dec(8), rotation |-> Num(30)] >>,
        arm_left |-> <<
            [time |-> Dec(0), rotation |-> Num(30)],
            [time |-> Dec(4), rotation |-> Num(-30)],
            [time |-> Dec(8), rotation |-> Num(30)] >>,
        arm_right |-> <<
            [time |-> Dec(0), rotation |-> Num(-30)],
            [time |-> Dec(4), rotation |-> Num(30)],
            [time |-> Dec(8), rotation |-> Num(-30)] >>,
        face |-> <<
            [time |-> Dec(0), expression |-> "determined"],
            [time |-> Dec(8), expression |-> "determined"] >> ]]

Template_idle ==
    [name |-> "Idle", duration |-> Dec(40),
     keyframes |-> [
        root |-> <<
            [time |-> Dec(0), y |-> Num(0)],
            [time |-> Dec(20), y |-> Num(-3)],
            [time |-> Dec(40), y |-> Num(0)] >>,
        body |-> <<
            [time |-> Dec(0), rotation |-> Num(0)],
            [time |-> Dec(20), rotation |-> Num(2)],
            [time |-> Dec(40), rotation |-> Num(0)] >>,
        head |-> <<
            [time |-> Dec(0), rotation |-> Num(0)],
            [time |-> Dec(10), rotation |-> Num(-1)],
            [time |-> Dec(30), rotation |-> Num(1)],
            [time |-> Dec(40), rotation |-> Num(0)] >>,
        face |-> <<
            [time |-> Dec(0), expression |-> "neutral"],
            [time |-> Dec(15), expression |-> "blink"],
            [time |-> Dec(17), expression |-> "neutral"],
            [time |-> Dec(40), expression |-> "neutral"] >> ]]

(***************************************************************************)
(* animation_generator.py: the template library and the emotion table      *)
(***************************************************************************)
\* dict order of AnimationGenerator.templates
TemplateOrder == <<"wave", "jump", "walk", "run", "idle">>

InitTemplates ==
    [wave |-> Template_wave, jump |-> Template_jump, walk |-> Template_walk,
     run |-> Template_run, idle |-> Template_idle]

\* dict order of AnimationGenerator.emotions
EmotionOrder == <<"happy", "sad", "angry", "scared", "excited">>

InitEmotions ==
    [happy   |-> [face |-> [base_expression |-> "happy", blink_rate |-> Dec(3)],
                  movement |-> [speed |-> Dec(12), bounce |-> Dec(13), energy |-> Dec(13)]],
     sad     |-> [face |-> [base_expression |-> "sad", blink_rate |-> Dec(1)],
                  movement |-> [speed |-> Dec(7), bounce |-> Dec(5), energy |-> Dec(6)]],
     angry   |-> [face |-> [base_expression |-> "angry", blink_rate |-> Dec(1)],
                  movement |-> [speed |-> Dec(13), bounce |-> Dec(8), energy |-> Dec(15)]],
     scared  |-> [face |-> [base_expression |-> "scared", blink_rate |-> Dec(4)],
                  movement |-> [speed |-> Dec(14), bounce |-> Dec(7), energy |-> Dec(11)]],
     excited |-> [face |-> [base_expression |-> "excited", blink_rate |-> Dec(2)],
                  movement |-> [speed |-> Dec(15), bounce |-> Dec(15), energy |-> Dec(18)]]]

\* the characters of a template name or an emotion name
NameChars ==
    [wave |-> Str.wave, jump |-> Str.jump, walk |-> Str.walk, run |-> Str.run,
     idle |-> Str.idle, happy |-> Str.happy, sad |-> Str.sad, angry |-> Str.angry,
     scared |-> Str.scared, excited |-> Str.excited]

\* intensity_words of _parse_description, in dict order
IntensityWords ==
    << <<Str.very, Dec(15)>>, <<Str.extremely, Dec(20)>>, <<Str.slightly, Dec(7)>>,
       <<Str.barely, Dec(5)>>, <<Str.incredibly, Dec(20)>>, <<Str.super, Dec(18)>>,
       <<Str.little, Dec(6)>> >>

\* for name in names: if name in description: ...; break
FirstNameIn(names, description, default) ==
    LET hits == {i \in 1..Len(names) : IsSubstring(NameChars[names[i]], description)}
    IN  IF hits = {} THEN default ELSE names[MinOf(hits)]

FirstIntensityIn(description) ==
    LET hits == {i \in 1..Len(IntensityWords) :
                    IsSubstring(IntensityWords[i][1], description)}
    IN  IF hits = {} THEN One ELSE IntensityWords[MinOf(hits)][2]

\* a variant that falls back to the first template of the table
ParseDefaultFirstTemplate(description) ==
    LET lowered == Lower(description)
    IN  [animation_type |-> FirstNameIn(TemplateOrder, lowered, TemplateOrder[1]),
         emotion        |-> FirstNameIn(EmotionOrder, lowered, "neutral"),
         intensity      |-> FirstIntensityIn(lowered)]

\* a variant that searches the text as given, without lower-casing it
ParseRawText(description) ==
    [animation_type |-> FirstNameIn(TemplateOrder, description, "idle"),
     emotion        |-> FirstNameIn(EmotionOrder, description, "neutral"),
     intensity      |-> FirstIntensityIn(description)]

_parse_description(description) ==
    LET lowered == Lower(description)
    IN  [animation_type |-> FirstNameIn(TemplateOrder, lowered, "idle"),
         emotion        |-> FirstNameIn(EmotionOrder, lowered, "neutral"),
         intensity      |-> FirstIntensityIn(lowered)]

(***************************************************************************)
(* _get_template returns a deep copy: an object that shares nothing with   *)
(* the library.  alias names the library entry the returned object is, and *)
(* is "none" for a copy; the in-place writes of _apply_emotion and         *)
(* _add_physics_and_effects reach the library only through an alias.       *)
(***************************************************************************)
GetTemplateAliased(tpls, animation_type) ==
    LET t == IF animation_type \in DOMAIN tpls THEN animation_type ELSE "idle"
    IN  [value |-> tpls[t], alias |-> t]

_get_template(tpls, animation_type) ==
    LET t == IF animation_type \in DOMAIN tpls THEN animation_type ELSE "idle"
    IN  [value |-> tpls[t], alias |-> "none"]

Modulated(keyframe, energy) ==
    [p \in DOMAIN keyframe |->
        IF p \in {"rotation", "x", "y"} /\ keyframe[p] # Zero
        THEN RatMul(keyframe[p], energy)
        ELSE keyframe[p]]

\* a variant that rewrites every expression
ExpressedAlways(keyframe, base_expression) ==
    [keyframe EXCEPT !.expression = base_expression]

Expressed(keyframe, base_expression) ==
    IF keyframe.expression = "neutral"
    THEN [keyframe EXCEPT !.expression = base_expression]
    ELSE keyframe

\* a variant that takes the energy factor for the speed factor
SpeedFromEnergy(emos, emotion, intensity) ==
    RatAdd(One, RatMul(RatSub(emos[emotion].movement.energy, One), intensity))

SpeedModifier(emos, emotion, intensity) ==
    RatAdd(One, RatMul(RatSub(emos[emotion].movement.speed, One), intensity))

\* a variant that takes the speed factor for the energy factor
EnergyFromSpeed(emos, emotion, intensity) ==
    RatAdd(One, RatMul(RatSub(emos[emotion].movement.speed, One), intensity))

EnergyModifier(emos, emotion, intensity) ==
    RatAdd(One, RatMul(RatSub(emos[emotion].movement.energy, One), intensity))

\* the keyframes dict after the loop of _apply_emotion (written in place)
EmotionKeyframes(emos, keyframes, emotion, intensity) ==
    [bone \in DOMAIN keyframes |->
        [i \in 1..Len(keyframes[bone]) |->
            IF bone = "face"
            THEN Expressed(keyframes[bone][i], emos[emotion].face.base_expression)
            ELSE Modulated(keyframes[bone][i],
                           EnergyModifier(emos, emotion, intensity))]]

\* result = template.copy(): a new top-level dict over the same keyframes
\* object; applied says whether that shallow copy was made.
_apply_emotion(emos, template, emotion, intensity) ==
    IF emotion \notin DOMAIN emos
    THEN [applied |-> FALSE, data |-> template]
    ELSE LET speed == SpeedModifier(emos, emotion, intensity)
             duration == IF speed # One
                         THEN RatDiv(template.duration, speed)
                         ELSE template.duration
         IN  [applied |-> TRUE,
              data |-> [template EXCEPT
                          !.duration = duration,
                          !.keyframes = EmotionKeyframes(emos, template.keyframes,
                                                         emotion, intensity)]]

_adjust_for_character(animation_data, character_id) == animation_data

HairDelay == Dec(1)
HairExaggeration == Dec(12)

\* a variant that does not clamp the delayed time to the duration
HairKeyframeUnclamped(kf, duration) ==
    LET props == DOMAIN kf \cap {"x", "y", "rotation"}
    IN  [p \in props \cup {"time"} |->
            IF p = "time" THEN RatAdd(kf.time, HairDelay)
            ELSE RatMul(kf[p], HairExaggeration)]

HairKeyframe(kf, duration) ==
    LET props == DOMAIN kf \cap {"x", "y", "rotation"}
    IN  [p \in props \cup {"time"} |->
            IF p = "time" THEN RatMin(RatAdd(kf.time, HairDelay), duration)
            ELSE RatMul(kf[p], HairExaggeration)]

\* a variant that walks the root keyframes from the last to the second
HairKeyframesReversed(root_keyframes, duration) ==
    [i \in 1..(Len(root_keyframes) - 1) |->
        HairKeyframe(root_keyframes[Len(root_keyframes) + 1 - i], duration)]

HairKeyframes(root_keyframes, duration) ==
    [i \in 1..(Len(root_keyframes) - 1) |->
        HairKeyframe(root_keyframes[i + 1], duration)]

SparkleParticle(duration) ==
    [type |-> "sparkle", count |-> 10, duration |-> duration, color |-> "#FFFF99"]
FireParticle(duration) ==
    [type |-> "fire", count |-> 20, duration |-> duration, color |-> "#FF5500"]
WaterParticle(duration) ==
    [type |-> "water", count |-> 15, duration |-> duration, color |-> "#66CCFF"]

Particles(description, duration) ==
    (IF IsSubstring(Str.sparkle, description) \/ IsSubstring(Str.magic, description)
     THEN <<SparkleParticle(duration)>> ELSE <<>>)
    \o (IF IsSubstring(Str.fire, description)
        THEN <<FireParticle(duration)>> ELSE <<>>)
    \o (IF IsSubstring(Str.water, description) \/ IsSubstring(Str.splash, description)
        THEN <<WaterParticle(duration)>> ELSE <<>>)

WithHair(animation_data) ==
    LET keyframes == animation_data.keyframes
        hair == HairKeyframes(keyframes["root"], animation_data.duration)
    IN  IF "root" \in DOMAIN keyframes /\ "hair" \notin DOMAIN keyframes
           /\ hair # <<>>
        THEN [animation_data EXCEPT !.keyframes = ("hair" :> hair) @@ keyframes]
        ELSE animation_data

WithParticles(animation_data, description) ==
    LET particles == Particles(description, animation_data.duration)
    IN  IF particles # <<>>
        THEN ("particles" :> particles) @@ animation_data
        ELSE animation_data

\* takes the description as passed to generate_animation, not lower-cased
_add_physics_and_effects(animation_data, description) ==
    IF "hair" \in DOMAIN animation_data.keyframes
    THEN animation_data
    ELSE WithParticles(WithHair(animation_data), description)

\* a variant that names the animation directory after the motion alone
AnimationIdOfType(n, animation_type) ==
    [kind |-> "anim", uuid |-> 0, of |-> animation_type]

AnimationId(n, animation_type) == [kind |-> "anim", uuid |-> n, of |-> animation_type]

(***************************************************************************)
(* generate_animation up to the save, one operator per statement, each     *)
(* taking the values of the statements before it.  The result is the       *)
(* animation data and metadata, and the template library as the in-place   *)
(* writes leave it.  With an alias, the library entry is the template      *)
(* object: it sees the keyframes dict (shared even with the shallow copy   *)
(* of _apply_emotion) and, when no shallow copy was made, every key of the *)
(* animation data.                                                         *)
(***************************************************************************)
\* what the in-place writes leave in the object _get_template returned
Written(template, emoted, animation_data) ==
    IF emoted.applied
    THEN [template.value EXCEPT !.keyframes = animation_data.keyframes]
    ELSE animation_data

AnimationMetadata(animation_id, character_id, description, parsed, animation_data) ==
    [animation_id |-> animation_id,
     character_id |-> character_id,
     description |-> description,
     animation_type |-> parsed.animation_type,
     emotion |-> parsed.emotion,
     intensity |-> parsed.intensity,
     duration |-> animation_data.duration]

Synthesized(tpls, character_id, description, n, parsed, template, emoted, animation_data) ==
    [id |-> AnimationId(n, parsed.animation_type),
     metadata |-> AnimationMetadata(AnimationId(n, parsed.animation_type),
                                    character_id, description, parsed, animation_data),
     data |-> animation_data,
     library |-> IF template.alias = "none" THEN tpls
                 ELSE [tpls EXCEPT ![template.alias] =
                          Written(template, emoted, animation_data)]]

WithEffects(tpls, character_id, description, n, parsed, template, emoted) ==
    Synthesized(tpls, character_id, description, n, parsed, template, emoted,
                _add_physics_and_effects(
                    _adjust_for_character(emoted.data, character_id), description))

WithEmotion(tpls, emos, character_id, description, n, parsed, template) ==
    WithEffects(tpls, character_id, description, n, parsed, template,
                _apply_emotion(emos, template.value, parsed.emotion, parsed.intensity))

WithTemplate(tpls, emos, character_id, description, n, parsed) ==
    WithEmotion(tpls, emos, character_id, description, n, parsed,
                _get_template(tpls, parsed.animation_type))

Synthesize(tpls, emos, character_id, description, n) ==
    WithTemplate(tpls, emos, character_id, description, n,
                 _parse_description(description))
(***************************************************************************)
(* spine2d_integration.py: structure inference                             *)
(*                                                                         *)
(* A layer is a record with name (characters), type ("pixel" or "group")  *)
(* and, each optional, position [x, y], dimensions [width, height],        *)
(* image_path (characters, or None) and children (a sequence of layers).   *)
(* The fields id, path, visible, opacity and blend_mode are carried by the *)
(* code and read nowhere in rigging; they are left out.                    *)
(***************************************************************************)
\* Python's None, and the marker of "no part key matched"
None == [none |-> TRUE]
NoPart == "none"

\* body_parts of _analyze_character_structure, in dict order
BodyParts ==
    << <<"head",       <<Str.head, Str.face, Str.hair>> >>,
       <<"body",       <<Str.body, Str.torso, Str.chest>> >>,
       <<"arm_right",  <<Str.arm_right, Str.right_arm, Str.rightarm>> >>,
       <<"arm_left",   <<Str.arm_left, Str.left_arm, Str.leftarm>> >>,
       <<"hand_right", <<Str.hand_right, Str.right_hand, Str.righthand>> >>,
       <<"hand_left",  <<Str.hand_left, Str.left_hand, Str.lefthand>> >>,
       <<"leg_right",  <<Str.leg_right, Str.right_leg, Str.rightleg>> >>,
       <<"leg_left",   <<Str.leg_left, Str.left_leg, Str.leftleg>> >>,
       <<"foot_right", <<Str.foot_right, Str.right_foot, Str.rightfoot>> >>,
       <<"foot_left",  <<Str.foot_left, Str.left_foot, Str.leftfoot>> >> >>

\* hierarchy of _analyze_character_structure, in dict order
Hierarchy ==
    << <<"root",      <<"body">> >>,
       <<"body",      <<"head", "arm_left", "arm_right", "leg_left", "leg_right">> >>,
       <<"arm_left",  <<"hand_left">> >>,
       <<"arm_right", <<"hand_right">> >>,
       <<"leg_left",  <<"foot_left">> >>,
       <<"leg_right", <<"foot_right">> >> >>

Range(s) == {s[i] : i \in 1..Len(s)}

RECURSIVE _flatten_layers(_)
_flatten_layers(layers) ==
    IF layers = <<>> THEN <<>>
    ELSE LET layer == Head(layers)
             own == IF layer.type # "group" THEN <<layer>> ELSE <<>>
             below == IF "children" \in DOMAIN layer
                      THEN _flatten_layers(layer.children) ELSE <<>>
         IN  own \o below \o _flatten_layers(Tail(layers))

\* the first part key one of whose names occurs in the lower-cased layer name
MatchingParts(layer_name) ==
    {i \in 1..Len(BodyParts) :
        \E k \in 1..Len(BodyParts[i][2]) : IsSubstring(BodyParts[i][2][k], layer_name)}

PartKeyOf(layer) ==
    LET hits == MatchingParts(Lower(layer.name))
    IN  IF hits = {} THEN NoPart ELSE BodyParts[MinOf(hits)][1]

\* a variant that keeps the layer found first
DictSetKeepFirst(parts, key, layer) ==
    IF \E i \in 1..Len(parts) : parts[i].key = key
    THEN parts
    ELSE Append(parts, [key |-> key, layer |-> layer])

\* parts[key] = layer on an insertion-ordered dict: a sequence of [key, layer]
DictSet(parts, key, layer) ==
    IF \E i \in 1..Len(parts) : parts[i].key = key
    THEN [i \in 1..Len(parts) |->
             IF parts[i].key = key THEN [key |-> key, layer |-> layer] ELSE parts[i]]
    ELSE Append(parts, [key |-> key, layer |-> layer])

RECURSIVE CollectParts(_, _)
CollectParts(flat, parts) ==
    IF flat = <<>> THEN parts
    ELSE LET key == PartKeyOf(Head(flat))
         IN  CollectParts(Tail(flat),
                          IF key = NoPart THEN parts ELSE DictSet(parts, key, Head(flat)))

\* a variant whose hierarchy keeps the detected parents only
AnalyzeDetectedOnly(layers) ==
    LET parts == CollectParts(_flatten_layers(layers), <<>>)
        detected(entry) ==
            entry[1] = "root" \/ \E i \in 1..Len(parts) : parts[i].key = entry[1]
    IN  [parts |-> parts, hierarchy |-> SelectSeq(Hierarchy, detected)]

_analyze_character_structure(layers) ==
    [parts |-> CollectParts(_flatten_layers(layers), <<>>),
     hierarchy |-> Hierarchy]

PartKeys(rig_data) == {rig_data.parts[i].key : i \in 1..Len(rig_data.parts)}

(***************************************************************************)
(* spine2d_integration.py: skeleton, skin and IK builders.  A builder      *)
(* returns [raised, value]: raised is "none" or the exception's name.      *)
(***************************************************************************)
Half(n) == Rat(n, 2)

\* a variant that hangs every bone on the root
ParentAlwaysRoot(hierarchy, part_name) == "root"

ParentOf(hierarchy, part_name) ==
    LET hits == {i \in 1..Len(hierarchy) : part_name \in Range(hierarchy[i][2])}
    IN  IF hits = {} THEN "root" ELSE hierarchy[MinOf(hits)][1]

HasImage(layer) ==
    "image_path" \in DOMAIN layer /\ layer.image_path # None /\ layer.image_path # <<>>

\* str.replace(old, ""): every occurrence of old removed, scanning from the left
RECURSIVE RemoveAll(_, _)
RemoveAll(s, old) ==
    IF s = <<>> THEN <<>>
    ELSE IF Len(s) >= Len(old) /\ SubSeq(s, 1, Len(old)) = old
         THEN RemoveAll(SubSeq(s, Len(old) + 1, Len(s)), old)
         ELSE <<Head(s)>> \o RemoveAll(Tail(s), old)

PngSuffix == <<".", "p", "n", "g">>
AttachmentName(layer) == RemoveAll(layer.image_path, PngSuffix)

SlotName(part_name) == <<"slot", part_name>>

\* line 174 reads layer["dimensions"] whenever the layer has a position
BoneRaises(layer) ==
    "position" \in DOMAIN layer /\ "dimensions" \notin DOMAIN layer

DefaultLength == Num(50)

\* a variant that leaves the root bone at the origin of the canvas
RootBoneAtOrigin(dimensions) ==
    [name |-> "root", x |-> Zero, y |-> Zero, length |-> DefaultLength]

RootBone(dimensions) ==
    [name |-> "root", x |-> Half(dimensions.width), y |-> Half(dimensions.height),
     length |-> DefaultLength]

PartBone(hierarchy, part_name, layer, dimensions) ==
    LET x == IF "position" \in DOMAIN layer
             THEN RatAdd(Num(layer.position.x), Half(layer.dimensions.width))
             ELSE Half(dimensions.width)
        y == IF "position" \in DOMAIN layer
             THEN RatSub(Num(dimensions.height - layer.position.y),
                         Half(layer.dimensions.height))
             ELSE Half(dimensions.height)
    IN  [name |-> part_name,
         parent |-> ParentOf(hierarchy, part_name),
         x |-> RatSub(x, Half(dimensions.width)),
         y |-> RatSub(y, Half(dimensions.height)),
         length |-> IF "dimensions" \in DOMAIN layer
                    THEN Half(IF layer.dimensions.width >= layer.dimensions.height
                              THEN layer.dimensions.width
                              ELSE layer.dimensions.height)
                    ELSE DefaultLength]

PartSlot(part_name, layer) ==
    [name |-> SlotName(part_name), bone |-> part_name,
     attachment |-> AttachmentName(layer)]

RECURSIVE SlotsOf(_)
SlotsOf(parts) ==
    IF parts = <<>> THEN <<>>
    ELSE (IF HasImage(Head(parts).layer)
          THEN <<PartSlot(Head(parts).key, Head(parts).layer)>> ELSE <<>>)
         \o SlotsOf(Tail(parts))

_create_skeleton(rig_data, dimensions) ==
    IF \E i \in 1..Len(rig_data.parts) : BoneRaises(rig_data.parts[i].layer)
    THEN [raised |-> "KeyError"]
    ELSE [raised |-> "none",
          bones |-> <<RootBone(dimensions)>> \o
                    [i \in 1..Len(rig_data.parts) |->
                        PartBone(rig_data.hierarchy, rig_data.parts[i].key,
                                 rig_data.parts[i].layer, dimensions)],
          slots |-> SlotsOf(rig_data.parts)]

DefaultAttachmentSize == 100

SkinEntry(layer) ==
    AttachmentName(layer) :>
        [x |-> 0, y |-> 0,
         width |-> IF "dimensions" \in DOMAIN layer
                   THEN layer.dimensions.width ELSE DefaultAttachmentSize,
         height |-> IF "dimensions" \in DOMAIN layer
                    THEN layer.dimensions.height ELSE DefaultAttachmentSize,
         path |-> layer.image_path]

\* every part key occurs once in parts, so the dict assignments never collide
_create_skin(rig_data) ==
    LET slotted == {i \in 1..Len(rig_data.parts) : HasImage(rig_data.parts[i].layer)}
    IN  [s \in {SlotName(rig_data.parts[i].key) : i \in slotted} |->
            SkinEntry(rig_data.parts[
                CHOOSE i \in slotted : SlotName(rig_data.parts[i].key) = s].layer)]

IkConstraint(name, target, bone, bend) ==
    [name |-> name, target |-> target, bones |-> <<bone>>, mix |-> 1,
     bendPositive |-> bend]

\* a variant that asks for one part of the pair only
HasEither(rig_data, a, b) == a \in PartKeys(rig_data) \/ b \in PartKeys(rig_data)

HasBoth(rig_data, a, b) == a \in PartKeys(rig_data) /\ b \in PartKeys(rig_data)

_create_ik_constraints(rig_data) ==
    (IF HasBoth(rig_data, "arm_right", "hand_right")
     THEN <<IkConstraint("arm_right_ik", "hand_right", "arm_right", TRUE)>> ELSE <<>>)
    \o (IF HasBoth(rig_data, "arm_left", "hand_left")
        THEN <<IkConstraint("arm_left_ik", "hand_left", "arm_left", FALSE)>> ELSE <<>>)
    \o (IF HasBoth(rig_data, "leg_right", "foot_right")
        THEN <<IkConstraint("leg_right_ik", "foot_right", "leg_right", FALSE)>> ELSE <<>>)
    \o (IF HasBoth(rig_data, "leg_left", "foot_left")
        THEN <<IkConstraint("leg_left_ik", "foot_left", "leg_left", FALSE)>> ELSE <<>>)

(***************************************************************************)
(* spine2d_integration.py: conversion of an animation for export           *)
(***************************************************************************)
EmptyMap == <<>>

RotateFrame(kf) ==
    [time |-> IF "time" \in DOMAIN kf THEN kf.time ELSE Zero,
     angle |-> kf.rotation, curve |-> "stepped"]

TranslateFrame(kf) ==
    [time |-> IF "time" \in DOMAIN kf THEN kf.time ELSE Zero,
     x |-> IF "x" \in DOMAIN kf THEN kf.x ELSE Zero,
     y |-> IF "y" \in DOMAIN kf THEN kf.y ELSE Zero,
     curve |-> "stepped"]

RECURSIVE RotateFrames(_)
RotateFrames(keyframes) ==
    IF keyframes = <<>> THEN <<>>
    ELSE (IF "rotation" \in DOMAIN Head(keyframes)
          THEN <<RotateFrame(Head(keyframes))>> ELSE <<>>)
         \o RotateFrames(Tail(keyframes))

RECURSIVE TranslateFrames(_)
TranslateFrames(keyframes) ==
    IF keyframes = <<>> THEN <<>>
    ELSE (IF "x" \in DOMAIN Head(keyframes) \/ "y" \in DOMAIN Head(keyframes)
          THEN <<TranslateFrame(Head(keyframes))>> ELSE <<>>)
         \o TranslateFrames(Tail(keyframes))

BoneAnimation(keyframes) ==
    [rotate |-> RotateFrames(keyframes), translate |-> TranslateFrames(keyframes),
     scale |-> <<>>]

HasAnimation(bone_animation) ==
    bone_animation.rotate # <<>> \/ bone_animation.translate # <<>>
    \/ bone_animation.scale # <<>>

RECURSIVE AttachmentFrames(_)
AttachmentFrames(keyframes) ==
    IF keyframes = <<>> THEN <<>>
    ELSE (IF "expression" \in DOMAIN Head(keyframes)
          THEN <<[time |-> IF "time" \in DOMAIN Head(keyframes)
                           THEN Head(keyframes).time ELSE Zero,
                  name |-> <<"face", Head(keyframes).expression>>]>>
          ELSE <<>>)
         \o AttachmentFrames(Tail(keyframes))

EventFrame(particle) ==
    [time |-> Zero, name |-> <<"effect", particle.type>>, string |-> particle.color,
     int |-> particle.count, float |-> particle.duration]

_convert_to_spine_animation(animation_data) ==
    LET keyframes == animation_data.keyframes
        animated == {b \in DOMAIN keyframes : HasAnimation(BoneAnimation(keyframes[b]))}
    IN  [bones |-> [b \in animated |-> BoneAnimation(keyframes[b])],
         slots |-> IF "face" \in DOMAIN keyframes
                   THEN SlotName("face") :>
                            [attachment |-> AttachmentFrames(keyframes["face"])]
                   ELSE EmptyMap,
         deform |-> EmptyMap,
         drawOrder |-> <<>>,
         events |-> IF "particles" \in DOMAIN animation_data
                    THEN [i \in 1..Len(animation_data.particles) |->
                             EventFrame(animation_data.particles[i])]
                    ELSE <<>>]

(***************************************************************************)
(* Storage.  An entry of a storage directory is a record with the id that  *)
(* names the directory and one field per file; Absent marks a file that    *)
(* was not written.                                                        *)
(***************************************************************************)
Absent == [absent |-> TRUE]

CharacterId(n, base_name) == [kind |-> "char", uuid |-> n, of |-> base_name]
\* a variant that names the rig directory after the character alone
RigIdOfCharacter(n, character_id) == [kind |-> "rig", uuid |-> 0, of |-> character_id]
RigId(n, character_id) == [kind |-> "rig", uuid |-> n, of |-> character_id]
ExportId(n, animation_id) == [kind |-> "export", uuid |-> n, of |-> animation_id]

\* PsdParser.get_character_metadata
get_character_metadata(character_id) ==
    LET hits == {i \in 1..Len(characters) : characters[i].character_id = character_id}
    IN  IF hits = {} THEN None ELSE characters[CHOOSE i \in hits : TRUE]

\* AnimationGenerator.get_animation_metadata / get_animation_data
AnimationEntry(animation_id) ==
    LET hits == {i \in 1..Len(animations) : animations[i].id = animation_id}
    IN  IF hits = {} THEN None ELSE animations[CHOOSE i \in hits : TRUE]

get_animation_metadata(animation_id) ==
    IF AnimationEntry(animation_id) = None THEN None
    ELSE AnimationEntry(animation_id).metadata

get_animation_data(animation_id) ==
    IF AnimationEntry(animation_id) = None THEN None
    ELSE AnimationEntry(animation_id).data

\* the rig directories _find_rig_for_character can return: os.listdir
\* yields them in no fixed order, and the first match is taken
RigsForCharacter(character_id) ==
    {i \in 1..Len(rigs) : /\ rigs[i].metadata # Absent
                          /\ rigs[i].metadata.character_id = character_id}

Raise(op, exception, message) ==
    [op |-> op, raised |-> exception, message |-> message]
Return(op, value) == [op |-> op, raised |-> "none", value |-> value]

(***************************************************************************)
(* psd_parser.py: parse_psd.  A file is [name, psd, width, height, layers]:*)
(* layers is what _process_layers makes of the decoded image.              *)
(***************************************************************************)
MissingFile == [name |-> "missing", psd |-> TRUE, width |-> 0, height |-> 0,
                layers |-> <<>>]

\* metadata.json of a character directory
CharacterMetadata(character_id, original_file, dimensions, layers) ==
    [character_id |-> character_id,
     original_file |-> original_file,
     dimensions |-> dimensions,
     layers_count |-> Len(layers),
     layers |-> layers]

parse_psd(file) ==
    IF file \notin files
    THEN /\ ret' = Raise("parse_psd", "FileNotFoundError", "PSD file not found")
         /\ UNCHANGED characters
    ELSE IF ~file.psd
    THEN /\ ret' = Raise("parse_psd", "ValueError", "File is not a PSD")
         /\ UNCHANGED characters
    ELSE LET character_id == CharacterId(Len(characters) + 1, file.name)
             dimensions == [width |-> file.width, height |-> file.height]
         IN  /\ characters' = Append(characters,
                    CharacterMetadata(character_id, file.name, dimensions,
                                      file.layers))
             /\ ret' = Return("parse_psd",
                    [character_id |-> character_id, dimensions |-> dimensions,
                     layers_count |-> Len(file.layers)])

(***************************************************************************)
(* spine2d_integration.py: rig_character                                   *)
(***************************************************************************)
SpineProject(character_id, metadata, skeleton, skin, ik_constraints) ==
    [skeleton |-> [spine |-> "4.1.00",
                   width |-> metadata.dimensions.width,
                   height |-> metadata.dimensions.height,
                   images |-> character_id,
                   audio |-> ""],
     bones |-> skeleton.bones,
     slots |-> skeleton.slots,
     skins |-> [default |-> skin],
     ik |-> ik_constraints,
     animations |-> EmptyMap]

\* _save_rig_data and the value returned; when _create_skeleton raised,
\* os.makedirs(rig_dir) has run: the directory stays, with no file in it
SaveRig(character_id, rig_id, metadata, skeleton, skin, ik_constraints) ==
    IF skeleton.raised # "none"
    THEN /\ rigs' = Append(rigs, [id |-> rig_id, metadata |-> Absent,
                                  project |-> Absent])
         /\ ret' = Raise("rig_character", skeleton.raised, "dimensions")
    ELSE /\ rigs' = Append(rigs,
                [id |-> rig_id,
                 metadata |-> [rig_id |-> rig_id,
                               character_id |-> character_id,
                               bone_count |-> Len(skeleton.bones),
                               ik_count |-> Len(ik_constraints)],
                 project |-> SpineProject(character_id, metadata, skeleton,
                                          skin, ik_constraints)])
         /\ ret' = Return("rig_character",
                [rig_id |-> rig_id, bone_count |-> Len(skeleton.bones),
                 ik_count |-> Len(ik_constraints)])

BuildRig(character_id, rig_id, metadata, rig_data) ==
    SaveRig(character_id, rig_id, metadata,
            _create_skeleton(rig_data, metadata.dimensions),
            _create_skin(rig_data),
            _create_ik_constraints(rig_data))

rig_character(character_id) ==
    IF get_character_metadata(character_id) = None
    THEN /\ ret' = Raise("rig_character", "ValueError", "Character not found")
         /\ UNCHANGED rigs
    ELSE BuildRig(character_id, RigId(Len(rigs) + 1, character_id),
                  get_character_metadata(character_id),
                  _analyze_character_structure(
                      get_character_metadata(character_id).layers))

(***************************************************************************)
(* spine2d_integration.py: export_animation                                *)
(***************************************************************************)
\* export_path = ""
NoPath == [dir |-> <<>>, file |-> <<>>]
ExportPath(export_id, animation_name, extension) ==
    [dir |-> export_id, file |-> <<animation_name, extension>>]

\* the files written into the export directory besides metadata.json, and
\* the export_path returned
ExportOutput(export_id, animation_name, format, spine_project) ==
    IF format = "json"
    THEN [path |-> ExportPath(export_id, animation_name, "json"),
          files |-> <<animation_name, "json">> :> spine_project]
    ELSE IF format = "png"
    THEN [path |-> ExportPath(export_id, animation_name, "png"),
          files |-> <<animation_name, "png">> :> "PNG output placeholder"]
    ELSE IF format = "gif"
    THEN [path |-> ExportPath(export_id, animation_name, "gif"),
          files |-> <<animation_name, "gif">> :> "GIF output placeholder"]
    ELSE [path |-> NoPath, files |-> EmptyMap]

\* spine_project["animations"][animation_name] = spine_animation
MergeAnimation(spine_project, animation_name, spine_animation) ==
    [spine_project EXCEPT
        !.animations = (animation_name :> spine_animation) @@ spine_project.animations]

\* the export directory written and the value returned
WriteExport(character_id, animation_id, format, animation_name, export_id, output) ==
    /\ exports' = Append(exports,
           [id |-> export_id,
            metadata |-> [export_id |-> export_id,
                          character_id |-> character_id,
                          animation_id |-> animation_id,
                          format |-> format],
            files |-> output.files])
    /\ UNCHANGED rigs
    /\ ret' = Return("export_animation",
           [export_id |-> export_id, format |-> format,
            file_path |-> output.path,
            animation_name |-> animation_name])

\* the project of rig r is loaded, the converted animation is added to the
\* loaded copy, and the copy goes to the export directory
ExportWith(character_id, animation_id, format, animation_name, spine_animation) ==
    \E r \in RigsForCharacter(character_id) :
        WriteExport(character_id, animation_id, format, animation_name,
                    ExportId(Len(exports) + 1, animation_id),
                    ExportOutput(ExportId(Len(exports) + 1, animation_id),
                                 animation_name, format,
                                 MergeAnimation(rigs[r].project, animation_name,
                                                spine_animation)))

\* a variant that looks for the rig before it looks for the animation
ExportRigFirst(character_id, animation_id, format) ==
    IF RigsForCharacter(character_id) = {}
    THEN /\ ret' = Raise("export_animation", "ValueError", "No rig found for character")
         /\ UNCHANGED <<rigs, exports>>
    ELSE IF get_animation_data(animation_id) = None
            \/ get_animation_metadata(animation_id) = None
    THEN /\ ret' = Raise("export_animation", "ValueError", "Animation not found")
         /\ UNCHANGED <<rigs, exports>>
    ELSE ExportWith(character_id, animation_id, format,
                    get_animation_metadata(animation_id).animation_type,
                    _convert_to_spine_animation(get_animation_data(animation_id)))

export_animation(character_id, animation_id, format) ==
    IF get_animation_data(animation_id) = None
       \/ get_animation_metadata(animation_id) = None
    THEN /\ ret' = Raise("export_animation", "ValueError", "Animation not found")
         /\ UNCHANGED <<rigs, exports>>
    ELSE IF RigsForCharacter(character_id) = {}
    THEN /\ ret' = Raise("export_animation", "ValueError", "No rig found for character")
         /\ UNCHANGED <<rigs, exports>>
    ELSE ExportWith(character_id, animation_id, format,
                    get_animation_metadata(animation_id).animation_type,
                    _convert_to_spine_animation(get_animation_data(animation_id)))
(***************************************************************************)
(* Bounds of the model                                                     *)
(***************************************************************************)
MaxChars == 1       \* characters imported in one history
MaxRigs == 2        \* rig directories created in one history
MaxAnims == 2       \* animations generated in one history
MaxExports == 2     \* exports made in one history

(***************************************************************************)
(* Layer trees the caller can import                                       *)
(***************************************************************************)
Image(c) == <<"l", c>> \o PngSuffix

PixelLayer(name, x, y, w, h, image) ==
    [name |-> name, type |-> "pixel", position |-> [x |-> x, y |-> y],
     dimensions |-> [width |-> w, height |-> h], image_path |-> image]

GroupLayer(name, children) ==
    [name |-> name, type |-> "group", children |-> children]

\* a layer without some of its optional fields
Without(layer, fields) == [f \in DOMAIN layer \ fields |-> layer[f]]

BodyLayer == PixelLayer(Str.Body, 150, 200, 100, 220, Image("0"))
HeadLayer == PixelLayer(Str.Head, 160, 80, 80, 90, Image("1"))
HairLayer == PixelLayer(Str.hair, 150, 60, 100, 40, Image("2"))
BackgroundLayer == PixelLayer(Str.Background, 0, 0, 400, 600, Image("3"))
ShadowLayer == PixelLayer(Str.Shadow, 120, 560, 160, 30, None)

LimbLayers ==
    << PixelLayer(Str.Right_Arm, 90, 210, 60, 150, Image("4")),
       PixelLayer(Str.RightHand, 95, 350, 40, 45, Image("5")),
       PixelLayer(Str.Left_Arm, 250, 210, 60, 150, Image("6")),
       PixelLayer(Str.LeftHand, 265, 350, 40, 45, Image("7")),
       PixelLayer(Str.Right_Leg, 150, 400, 50, 160, Image("8")),
       PixelLayer(Str.RightFoot, 140, 550, 70, 30, Image("9")),
       PixelLayer(Str.Left_Leg, 200, 400, 50, 160, Image("a")),
       PixelLayer(Str.LeftFoot, 190, 550, 70, 30, Image("b")) >>

\* the entries of seq at the indices in I, in order
SubSeqBy(seq, I) ==
    LET F[i \in 0..Len(seq)] ==
            IF i = 0 THEN <<>>
            ELSE IF i \in I THEN Append(F[i - 1], seq[i]) ELSE F[i - 1]
    IN  F[Len(seq)]

PsdFile(name, layers) ==
    [name |-> name, psd |-> TRUE, width |-> 400, height |-> 600, layers |-> layers]

LimbFiles == {PsdFile("limbs", SubSeqBy(LimbLayers, I)) : I \in SUBSET (1..Len(LimbLayers))}

ScenarioLayers ==
    <<BackgroundLayer, BodyLayer,
      GroupLayer(Str.Arms, <<LimbLayers[1], LimbLayers[2]>>)>>

FullLayers == <<BodyLayer, HeadLayer>> \o LimbLayers

SpecialFiles ==
    { PsdFile("empty", <<>>),
      PsdFile("decor", <<BackgroundLayer, ShadowLayer>>),
      PsdFile("scenario", ScenarioLayers),
      PsdFile("full", FullLayers),
      PsdFile("body", <<BodyLayer>>),
      PsdFile("head", <<HeadLayer>>),
      PsdFile("torso", <<BodyLayer, HeadLayer>>),
      PsdFile("armed", <<BodyLayer, LimbLayers[1], LimbLayers[2]>>),
      PsdFile("reversed", <<LimbLayers[2], LimbLayers[1], HeadLayer, BodyLayer>>),
      PsdFile("twoheads", <<HeadLayer, BackgroundLayer, HairLayer>>),
      PsdFile("hairfirst", <<HairLayer, HeadLayer>>),
      PsdFile("headgroup", <<GroupLayer(Str.Head, <<ShadowLayer>>)>>),
      PsdFile("nested",
              <<GroupLayer(Str.Body,
                    <<BodyLayer,
                      GroupLayer(Str.Arms, <<LimbLayers[3], LimbLayers[4]>>)>>),
                HeadLayer>>),
      PsdFile("emptygroup", <<GroupLayer(Str.Arms, <<>>), BodyLayer>>),
      PsdFile("noimage", <<[BodyLayer EXCEPT !.image_path = None], HeadLayer>>),
      [PsdFile("odd", <<BodyLayer, HeadLayer, LimbLayers[5]>>)
          EXCEPT !.width = 333, !.height = 501] }

RigFiles == LimbFiles \cup SpecialFiles

\* Layer trees of the Layer schema that parse_psd does not write: pixel
\* layers that leave out optional fields, each alone and together
OptionalFields == {"position", "dimensions", "image_path"}
SparseTrees ==
    {<<Without(BodyLayer, omitted), Without(LimbLayers[1], omitted2)>> :
        omitted \in SUBSET OptionalFields, omitted2 \in {{}, {"position", "dimensions"}}}

\* a storage directory that holds one such character
StoredCharacters ==
    {<<CharacterMetadata(CharacterId(1, "stored"), "stored",
                         [width |-> 400, height |-> 600], layers)>> :
        layers \in SparseTrees}

NotesFile == [name |-> "notes", psd |-> FALSE, width |-> 0, height |-> 0,
              layers |-> <<>>]

PipelineFiles == {PsdFile("full", FullLayers), NotesFile}

(***************************************************************************)
(* Request texts the caller can send                                       *)
(***************************************************************************)
\* the text of the synthesis scenario and of examples/simple_demo.py
ScenarioText == Join(<<Str.very, Str.happy, Str.waving, Str.with, Str.sparkles>>)
DemoText == Join(<<Str.happy, Str.waving, Str.with, Str.sparkles>>)

MotionWords == {<<>>, Str.wave, Str.jump, Str.walk, Str.run, Str.idle,
                Str.waving, Str.Jump, Str.brunch}
EmotionWords == {<<>>, Str.happy, Str.sad, Str.angry, Str.scared, Str.excited,
                 Str.unhappy}
IntensityOptions == {<<>>, Str.very, Str.extremely, Str.slightly, Str.barely,
                     Str.incredibly, Str.super, Str.little, Str.every}
EffectWords == {<<>>, Str.sparkles, Str.magic, Str.fire, Str.splash, Str.Sparkle,
                Join(<<Str.fire, Str.water>>)}
Keywords == (MotionWords \cup EmotionWords \cup IntensityOptions) \ {<<>>}

SynthTexts ==
    {Join(<<i, e, m, x>>) : i \in IntensityOptions, e \in EmotionWords,
                            m \in MotionWords, x \in EffectWords}
    \cup {Join(<<a, b>>) : a \in Keywords, b \in Keywords}
    \cup {ScenarioText, DemoText, Str.hello}

PipelineTexts == {Str.wave, Join(<<Str.happy, Str.jump, Str.sparkles>>)}

Formats == {"json", "png", "gif", "xml"}

(***************************************************************************)
(* Arguments a caller can pass                                             *)
(***************************************************************************)
UnknownCharacter == CharacterId(0, "none")
UnknownAnimation == AnimationId(0, "none")

CharacterArgs == {characters[i].character_id : i \in 1..Len(characters)}
                 \cup {UnknownCharacter}
AnimationArgs == {animations[i].id : i \in 1..Len(animations)}
                 \cup {UnknownAnimation}

(***************************************************************************)
(* Initial states                                                          *)
(***************************************************************************)
NoReturn == [op |-> "none", raised |-> "none"]
NoRequest == [none |-> TRUE]

InitGenerator ==
    /\ templates = InitTemplates
    /\ emotions = InitEmotions

InitStorage ==
    /\ characters = <<>>
    /\ rigs = <<>>
    /\ animations = <<>>
    /\ exports = <<>>
    /\ ret = NoReturn

InitServer ==
    /\ pc = "read"
    /\ cur = NoRequest
    /\ out = <<>>

Init ==
    /\ InitGenerator /\ InitStorage /\ InitServer
    /\ files = PipelineFiles
    /\ texts = PipelineTexts

InitSynth ==
    /\ InitGenerator /\ InitStorage /\ InitServer
    /\ files = {}
    /\ texts \in {{d} : d \in SynthTexts}

\* one PSD file to import, or a storage directory with one character in it
InitRig ==
    /\ InitGenerator /\ InitServer
    /\ rigs = <<>> /\ animations = <<>> /\ exports = <<>> /\ ret = NoReturn
    /\ \/ files \in {{f} : f \in RigFiles} /\ characters = <<>>
       \/ files = {} /\ characters \in StoredCharacters
    /\ texts = {}

(***************************************************************************)
(* The core operations called directly, as examples/simple_demo.py does    *)
(***************************************************************************)
\* _save_animation_data and the value returned
SaveAnimation(s) ==
    /\ templates' = s.library
    /\ animations' = Append(animations,
                            [id |-> s.id, metadata |-> s.metadata, data |-> s.data])
    /\ ret' = Return("generate_animation",
                     [animation_id |-> s.id,
                      animation_type |-> s.metadata.animation_type,
                      emotion |-> s.metadata.emotion,
                      duration |-> s.data.duration])

generate_animation(character_id, description) ==
    SaveAnimation(Synthesize(templates, emotions, character_id, description,
                             Len(animations) + 1))

ImportPsd ==
    /\ Len(characters) < MaxChars
    /\ \E f \in files \cup {MissingFile} : parse_psd(f)
    /\ UNCHANGED <<templates, emotions, files, texts, rigs, animations, exports,
                   pc, cur, out>>

RigCharacter ==
    /\ Len(rigs) < MaxRigs
    /\ \E c \in CharacterArgs : rig_character(c)
    /\ UNCHANGED <<templates, emotions, files, texts, characters, animations,
                   exports, pc, cur, out>>

GenerateAnimation ==
    /\ Len(animations) < MaxAnims
    /\ \E c \in CharacterArgs, d \in texts : generate_animation(c, d)
    /\ UNCHANGED <<emotions, files, texts, characters, rigs, exports, pc, cur, out>>

ExportAnimation ==
    /\ Len(exports) < MaxExports
    /\ \E c \in CharacterArgs, a \in AnimationArgs, f \in Formats :
          export_animation(c, a, f)
    /\ UNCHANGED <<templates, emotions, files, texts, characters, animations,
                   pc, cur, out>>


(***************************************************************************)
(* _add_physics_and_effects called on its own: the base animations and     *)
(* the request texts it is given                                           *)
(***************************************************************************)
\* a hair track the base animation brings along
GivenHair(duration) ==
    <<[time |-> Zero, rotation |-> Zero], [time |-> duration, rotation |-> Num(5)]>>

WithGivenHair(animation_data) ==
    [animation_data EXCEPT
        !.keyframes = ("hair" :> GivenHair(animation_data.duration)) @@ @]

\* every template, two of them also modulated, without and with a hair track
PlainAnimations ==
    {InitTemplates[t] : t \in DOMAIN InitTemplates}
    \cup {_apply_emotion(InitEmotions, InitTemplates[t], "excited", One).data :
             t \in {"jump", "wave"}}
BaseAnimations == PlainAnimations \cup {WithGivenHair(a) : a \in PlainAnimations}

EffectTexts ==
    {Join(<<x, y>>) : x \in EffectWords, y \in EffectWords} \cup {ScenarioText}

InitEffects ==
    /\ InitGenerator /\ InitStorage /\ InitServer
    /\ files = {}
    /\ texts = EffectTexts

AddPhysicsAndEffects ==
    /\ \E animation_data \in BaseAnimations, description \in texts :
          ret' = [op |-> "_add_physics_and_effects", raised |-> "none",
                  args |-> [animation_data |-> animation_data,
                            description |-> description],
                  value |-> _add_physics_and_effects(animation_data, description)]
    /\ UNCHANGED <<templates, emotions, files, texts, characters, rigs, animations,
                   exports, pc, cur, out>>

(***************************************************************************)
(* _convert_to_spine_animation called on its own: the animations it is     *)
(* given                                                                   *)
(***************************************************************************)
ConvertTexts == EffectTexts

\* what the generator saves for the base animations
GeneratedAnimations ==
    {_add_physics_and_effects(a, d) : a \in BaseAnimations, d \in ConvertTexts}

\* Animations of the Animation schema that the generator does not write:
\* keyframes are sparse mappings, so a face keyframe may carry motion fields
\* and a motion track may carry a keyframe without any
FaceFields == {{}, {"rotation"}, {"x"}, {"y", "expression"}, {"rotation", "expression"}}
SchemaKeyframe(fields, time) ==
    [f \in fields \cup {"time"} |->
        IF f = "time" THEN time
        ELSE IF f = "expression" THEN "neutral"
        ELSE Num(5)]
SchemaAnimations ==
    {[duration |-> Num(2),
      keyframes |-> [face |-> <<SchemaKeyframe({"expression"}, Zero),
                                SchemaKeyframe(fields, One)>>,
                     head |-> <<SchemaKeyframe(head_fields, Zero),
                                SchemaKeyframe({}, One),
                                SchemaKeyframe(last_fields, Num(2))>>]] :
        fields \in FaceFields,
        head_fields \in {{}, {"x"}, {"rotation"}, {"x", "y"}},
        last_fields \in {{"rotation", "y"}, {"x"}, {"rotation"}}}

ConvertInputs == GeneratedAnimations \cup SchemaAnimations

InitConvert ==
    /\ InitGenerator /\ InitStorage /\ InitServer
    /\ files = {}
    /\ texts = ConvertTexts

ConvertToSpineAnimation ==
    /\ \E animation_data \in ConvertInputs :
          ret' = [op |-> "_convert_to_spine_animation", raised |-> "none",
                  args |-> [animation_data |-> animation_data],
                  value |-> _convert_to_spine_animation(animation_data)]
    /\ UNCHANGED <<templates, emotions, files, texts, characters, rigs, animations,
                   exports, pc, cur, out>>
(***************************************************************************)
(* server.py.  A JSON value is a record tagged with its JSON type; an      *)
(* object carries its members as a function from keys to JSON values.      *)
(***************************************************************************)
JsonNull == [json |-> "null"]
JsonArray == [json |-> "array"]
JsonNumber(n) == [json |-> "number", number |-> n]
JsonString(s) == [json |-> "string", value |-> s]
\* a string that names a file, an id or a request text
JsonText(t) == [json |-> "string", text |-> t]
JsonObject(members) == [json |-> "object", members |-> members]

\* isinstance(value, dict): only a dict has .get
IsDict(value) == value.json = "object"
\* dict.get(key, default)
Get(object, key, default) ==
    IF key \in DOMAIN object.members THEN object.members[key] ELSE default
\* "not value" of the arguments the tools test
Falsy(value) == value.json \in {"null", "array"}
\* a list or a dict cannot be looked up in self.handlers
Unhashable(value) == value.json \in {"array", "object"}

Handlers == {"listTools", "callTool", "listResources", "readResource"}
ToolNames == <<"import_psd", "setup_character", "generate_animation",
               "preview_animation", "export_animation">>
CharactersUri == "spine2d://characters"

\* the three shapes process_request returns: a result, a result flagged
\* isError by _error_response, and an error object
ResultResponse(request_id, result) ==
    [jsonrpc |-> "2.0", id |-> request_id, result |-> result]
ErrorResponse(request_id, code) ==
    [jsonrpc |-> "2.0", id |-> request_id, error |-> [code |-> code]]
_error_response == [content |-> "error", isError |-> TRUE]
SuccessResult(value) == [content |-> "success", value |-> value]

\* run: the response is written to stdout and the loop reads again
Write(response) ==
    /\ out' = Append(out, response)
    /\ pc' = "read"
    /\ cur' = NoRequest

\* a handler that returns _error_response before touching the storage
Refuse(request_id) ==
    /\ Write(ResultResponse(request_id, _error_response))
    /\ UNCHANGED <<templates, characters, rigs, animations, exports, ret>>

\* an exception other than McpError reaching process_request
InternalError(request_id) ==
    /\ Write(ErrorResponse(request_id, "InternalError"))
    /\ UNCHANGED <<templates, characters, rigs, animations, exports, ret>>

McpError(request_id, code) ==
    /\ Write(ErrorResponse(request_id, code))
    /\ UNCHANGED <<templates, characters, rigs, animations, exports, ret>>

\* the try/except of a tool: the core operation's outcome as a result
ToolResult(outcome) ==
    IF outcome.raised = "none" THEN SuccessResult(outcome.value) ELSE _error_response

handle_list_tools == [tools |-> ToolNames]
handle_list_resources == [resources |-> <<CharactersUri>>]
list_characters ==
    [i \in 1..Len(characters) |->
        [id |-> characters[i].character_id,
         name |-> characters[i].original_file,
         dimensions |-> characters[i].dimensions,
         layers_count |-> characters[i].layers_count]]

_import_psd(request_id, args) ==
    LET file_path == Get(args, "file_path", JsonNull)
    IN  IF Falsy(file_path) THEN Refuse(request_id)
        ELSE IF file_path.text \notin files THEN Refuse(request_id)
        ELSE /\ parse_psd(file_path.text)
             /\ Write(ResultResponse(request_id, ToolResult(ret')))
             /\ UNCHANGED <<templates, rigs, animations, exports>>

_setup_character(request_id, args) ==
    LET character_id == Get(args, "character_id", JsonNull)
    IN  IF Falsy(character_id) THEN Refuse(request_id)
        ELSE IF get_character_metadata(character_id.text) = None
        THEN Refuse(request_id)
        ELSE /\ rig_character(character_id.text)
             /\ Write(ResultResponse(request_id, ToolResult(ret')))
             /\ UNCHANGED <<templates, characters, animations, exports>>

_generate_animation(request_id, args) ==
    LET character_id == Get(args, "character_id", JsonNull)
        description == Get(args, "description", JsonNull)
    IN  IF Falsy(character_id) \/ Falsy(description) THEN Refuse(request_id)
        ELSE IF get_character_metadata(character_id.text) = None
        THEN Refuse(request_id)
        ELSE /\ generate_animation(character_id.text, description.text)
             /\ Write(ResultResponse(request_id, ToolResult(ret')))
             /\ UNCHANGED <<characters, rigs, exports>>

_preview_animation(request_id, args) ==
    LET character_id == Get(args, "character_id", JsonNull)
        animation_id == Get(args, "animation_id", JsonNull)
    IN  IF Falsy(character_id) \/ Falsy(animation_id) THEN Refuse(request_id)
        ELSE IF get_animation_metadata(animation_id.text) = None
        THEN Refuse(request_id)
        ELSE /\ export_animation(character_id.text, animation_id.text, "gif")
             /\ Write(ResultResponse(request_id, ToolResult(ret')))
             /\ UNCHANGED <<templates, characters, animations>>

_export_animation(request_id, args) ==
    LET character_id == Get(args, "character_id", JsonNull)
        animation_id == Get(args, "animation_id", JsonNull)
        format == Get(args, "format", JsonString("json"))
    IN  IF Falsy(character_id) \/ Falsy(animation_id) THEN Refuse(request_id)
        ELSE IF get_animation_metadata(animation_id.text) = None
        THEN Refuse(request_id)
        ELSE /\ export_animation(character_id.text, animation_id.text, format.value)
             /\ Write(ResultResponse(request_id, ToolResult(ret')))
             /\ UNCHANGED <<templates, characters, animations>>

handle_call_tool(request_id, params) ==
    LET tool_name == Get(params, "name", JsonNull)
        arguments == Get(params, "arguments", JsonObject(EmptyMap))
        named(tool) == tool_name = JsonString(tool)
    IN  IF ~(\E i \in 1..Len(ToolNames) : named(ToolNames[i]))
        THEN McpError(request_id, "MethodNotFound")
        \* args.get on a value that is not a dict: AttributeError
        ELSE IF ~IsDict(arguments) THEN InternalError(request_id)
        ELSE IF named("import_psd") THEN _import_psd(request_id, arguments)
        ELSE IF named("setup_character") THEN _setup_character(request_id, arguments)
        ELSE IF named("generate_animation")
        THEN _generate_animation(request_id, arguments)
        ELSE IF named("preview_animation")
        THEN _preview_animation(request_id, arguments)
        ELSE _export_animation(request_id, arguments)

handle_read_resource(request_id, params) ==
    IF Get(params, "uri", JsonNull) = JsonString(CharactersUri)
    THEN /\ Write(ResultResponse(request_id, [contents |-> list_characters]))
         /\ UNCHANGED <<templates, characters, rigs, animations, exports, ret>>
    ELSE McpError(request_id, "InvalidRequest")

\* the (code, message) handlers answer without reading params
Answer(request_id, result) ==
    /\ Write(ResultResponse(request_id, result))
    /\ UNCHANGED <<templates, characters, rigs, animations, exports, ret>>

\* sys.exit(1) in run: request.get raised in the try block of
\* process_request and again in its "except Exception" handler
Exit ==
    /\ pc' = "crashed"
    /\ UNCHANGED <<cur, out, templates, characters, rigs, animations, exports, ret>>

process_request(request) ==
    IF ~IsDict(request) THEN Exit
    ELSE LET request_id == Get(request, "id", JsonNull)
             method == Get(request, "method", JsonNull)
             params == Get(request, "params", JsonObject(EmptyMap))
         IN  IF Unhashable(method) THEN InternalError(request_id)
             ELSE IF ~(method.json = "string" /\ method.value \in Handlers)
             THEN McpError(request_id, "MethodNotFound")
             ELSE IF method.value = "listTools"
             THEN Answer(request_id, handle_list_tools)
             ELSE IF method.value = "listResources"
             THEN Answer(request_id, handle_list_resources)
             \* params.get on a value that is not a dict: AttributeError
             ELSE IF ~IsDict(params) THEN InternalError(request_id)
             ELSE IF method.value = "callTool"
             THEN handle_call_tool(request_id, params)
             ELSE handle_read_resource(request_id, params)

(***************************************************************************)
(* Request lines a client can send                                         *)
(***************************************************************************)
MaxLines == 3       \* request lines answered in one run

RequestIds == {JsonNumber(1), JsonNumber(2)}

Members1(k1, v1) == k1 :> v1
Members2(k1, v1, k2, v2) == (k1 :> v1) @@ (k2 :> v2)
Members3(k1, v1, k2, v2, k3, v3) == (k1 :> v1) @@ (k2 :> v2) @@ (k3 :> v3)

Request(request_id, method, params) ==
    JsonObject(Members3("id", request_id, "method", method, "params", params))
CallTool(request_id, tool, arguments) ==
    Request(request_id, JsonString("callTool"),
            JsonObject(Members2("name", JsonString(tool), "arguments", arguments)))

\* JSON values that are not objects
MalformedRequests == {JsonNull, JsonArray, JsonNumber(42), JsonString("ping")}

ProtocolRequests(request_id) ==
    { JsonObject(EmptyMap),
      JsonObject(Members1("id", request_id)),
      JsonObject(Members2("id", request_id, "method", JsonString("listTools"))),
      Request(request_id, JsonString("listTools"), JsonArray),
      Request(request_id, JsonString("listResources"), JsonObject(EmptyMap)),
      Request(request_id, JsonString("readResource"),
              JsonObject(Members1("uri", JsonString(CharactersUri)))),
      Request(request_id, JsonString("readResource"), JsonObject(EmptyMap)),
      Request(request_id, JsonString("readResource"), JsonArray),
      Request(request_id, JsonString("shutdown"), JsonObject(EmptyMap)),
      Request(request_id, JsonNumber(7), JsonObject(EmptyMap)),
      Request(request_id, JsonArray, JsonObject(EmptyMap)),
      Request(request_id, JsonString("callTool"), JsonNull),
      Request(request_id, JsonString("callTool"), JsonObject(EmptyMap)),
      Request(request_id, JsonString("callTool"),
              JsonObject(Members1("name", JsonString("render")))) }
    \cup {CallTool(request_id, ToolNames[i], a) :
              i \in 1..Len(ToolNames), a \in {JsonArray, JsonObject(EmptyMap)}}

ImportRequests(request_id) ==
    {CallTool(request_id, "import_psd", JsonObject(Members1("file_path", JsonText(f)))) :
        f \in files \cup {MissingFile}}

SetupRequests(request_id) ==
    {CallTool(request_id, "setup_character",
              JsonObject(Members1("character_id", JsonText(c)))) :
        c \in CharacterArgs}

GenerateRequests(request_id) ==
    {CallTool(request_id, "generate_animation",
              JsonObject(Members2("character_id", JsonText(c),
                                  "description", JsonText(d)))) :
        c \in CharacterArgs, d \in texts}

ExportArguments ==
    {Members2("character_id", JsonText(c), "animation_id", JsonText(a)) :
        c \in CharacterArgs, a \in AnimationArgs}

ExportRequests(request_id) ==
    {CallTool(request_id, "preview_animation", JsonObject(m)) : m \in ExportArguments}
    \cup {CallTool(request_id, "export_animation", JsonObject(m)) : m \in ExportArguments}
    \cup {CallTool(request_id, "export_animation",
                   JsonObject(m @@ Members1("format", JsonString(f)))) :
              m \in ExportArguments, f \in Formats}

\* the lines of one read; the tools that add to a storage directory are
\* offered while that directory is below its bound
Requests ==
    MalformedRequests
    \cup UNION {ProtocolRequests(i)
                \cup (IF Len(characters) < MaxChars THEN ImportRequests(i) ELSE {})
                \cup (IF Len(rigs) < MaxRigs THEN SetupRequests(i) ELSE {})
                \cup (IF Len(animations) < MaxAnims THEN GenerateRequests(i) ELSE {})
                \cup (IF Len(exports) < MaxExports THEN ExportRequests(i) ELSE {}) :
                i \in RequestIds}

(***************************************************************************)
(* server.py: run.  pc is the position of the loop: "read" before          *)
(* readline, "process" between json.loads and the write of the response,   *)
(* "stopped" after the loop, "crashed" after sys.exit(1).  A line that is  *)
(* not JSON is logged and the loop reads again: the state does not change. *)
(***************************************************************************)
ReadLine ==
    /\ pc = "read"
    /\ \/ /\ pc' = "stopped"
          /\ cur' = cur
       \/ /\ Len(out) < MaxLines
          /\ \E request \in Requests : cur' = request
          /\ pc' = "process"
    /\ UNCHANGED <<templates, emotions, files, texts, characters, rigs, animations,
                   exports, ret, out>>

ProcessRequest ==
    /\ pc = "process"
    /\ process_request(cur)
    /\ UNCHANGED <<emotions, files, texts>>

\* KeyboardInterrupt
Interrupt ==
    /\ pc \in {"read", "process"}
    /\ pc' = "stopped"
    /\ UNCHANGED <<templates, emotions, files, texts, characters, rigs, animations,
                   exports, ret, cur, out>>

Next == ImportPsd \/ RigCharacter \/ GenerateAnimation \/ ExportAnimation
Spec == Init /\ [][Next]_vars

NextSynth == GenerateAnimation
SpecSynth == InitSynth /\ [][NextSynth]_vars

NextRig == ImportPsd \/ RigCharacter
SpecRig == InitRig /\ [][NextRig]_vars

InitRun ==
    /\ InitGenerator /\ InitStorage /\ InitServer
    /\ files = {PsdFile("armed", <<BodyLayer, LimbLayers[1], LimbLayers[2]>>)}
    /\ texts = {Str.wave}

NextServer == ReadLine \/ ProcessRequest \/ Interrupt
SpecServer == InitRun /\ [][NextServer]_vars

NextEffects == AddPhysicsAndEffects
SpecEffects == InitEffects /\ [][NextEffects]_vars

NextConvert == ConvertToSpineAnimation
SpecConvert == InitConvert /\ [][NextConvert]_vars

(***************************************************************************)
(* Properties                                                              *)
(***************************************************************************)
Saved == 1..Len(animations)
Tracks(data) == DOMAIN data.keyframes

\* C1: the text "very happy waving with sparkles" is read as motion wave,
\* emotion happy, intensity 1.5, and its animation lasts 2.0 / 1.3.
ScenarioIsHappyWave ==
    \A i \in Saved :
        animations[i].metadata.description = ScenarioText
        => /\ animations[i].metadata.animation_type = "wave"
           /\ animations[i].metadata.emotion = "happy"
           /\ animations[i].metadata.intensity = Dec(15)
           /\ animations[i].data.duration = RatDiv(Num(2), Dec(13))

\* the texts of C2: no template name, emotion name or intensity word occurs
\* in the text as the interpreter reads it (lower-cased)
PlainText(description) ==
    \A k \in {NameChars[n] : n \in DOMAIN NameChars}
             \cup {IntensityWords[i][1] : i \in 1..Len(IntensityWords)} :
        ~IsSubstring(k, Lower(description))

IdleTracks == {"root", "body", "head", "face"}

\* C2: a text without any keyword yields idle, neutral, intensity 1.0 and
\* duration 4.0, and the saved animation carries the root, body, head and
\* face tracks of the idle template keyframe for keyframe.
PlainTextYieldsIdle ==
    \A i \in Saved :
        PlainText(animations[i].metadata.description)
        => /\ animations[i].metadata.animation_type = "idle"
           /\ animations[i].metadata.emotion = "neutral"
           /\ animations[i].metadata.intensity = One
           /\ animations[i].metadata.duration = Num(4)
           /\ animations[i].data.duration = Num(4)
           /\ IdleTracks \subseteq Tracks(animations[i].data)
           /\ \A b \in IdleTracks :
                 animations[i].data.keyframes[b] = Template_idle.keyframes[b]

PlainTextGenerated ==
    \E i \in Saved :
        /\ PlainText(animations[i].metadata.description)
        /\ animations[i].metadata.description # <<>>
        /\ "particles" \in DOMAIN animations[i].data
        /\ "hair" \in Tracks(animations[i].data)

\* C3: whatever was generated, the template library and the emotion table
\* are what they were at construction.
TemplatePurity ==
    /\ templates = InitTemplates
    /\ emotions = InitEmotions

ModulatedTwice ==
    /\ Len(animations) = 2
    /\ \A i \in Saved :
          /\ animations[i].metadata.emotion # "neutral"
          /\ animations[i].metadata.animation_type = "jump"
          /\ "particles" \in DOMAIN animations[i].data
    /\ animations[1].data = animations[2].data

\* the exports that write a skeleton document: those in the json format
ExportsOf(character_id) ==
    {i \in 1..Len(exports) : /\ exports[i].metadata.character_id = character_id
                             /\ exports[i].metadata.format = "json"}
ExportedName(i) ==
    get_animation_metadata(exports[i].metadata.animation_id).animation_type
ExportedNames(character_id) == {ExportedName(i) : i \in ExportsOf(character_id)}

\* every skeleton document kept for a character: the project of each of its
\* rigs and each document written into an export directory
DocumentsOf(character_id) ==
    {rigs[r].project : r \in RigsForCharacter(character_id)}
    \cup {exports[i].files[<<ExportedName(i), "json">>] : i \in ExportsOf(character_id)}

\* C4: after the exports made for a character, a skeleton document of the
\* character has an animations entry for every motion type exported so far.
ExportAccumulation ==
    \A i \in 1..Len(exports) :
        LET character_id == exports[i].metadata.character_id
        IN  ExportsOf(character_id) # {}
            => \E document \in DocumentsOf(character_id) :
                  ExportedNames(character_id) \subseteq DOMAIN document.animations

\* C5: once a motion type has been exported a second time for a character,
\* the skeleton document of the character holds under that name the
\* conversion of the animation exported last, next to the entries of the
\* other names exported before it.
MergeOverwrite ==
    \A i, j \in 1..Len(exports) :
        LET character_id == exports[j].metadata.character_id
            later == {k \in ExportsOf(character_id) : k > j}
            earlier == {k \in ExportsOf(character_id) : k < j}
        IN  ( /\ i \in earlier
              /\ ExportedName(i) = ExportedName(j)
              /\ \A k \in later : ExportedName(k) # ExportedName(j) )
            => \E r \in RigsForCharacter(character_id) :
                  LET animations_map == rigs[r].project.animations
                  IN  /\ ExportedName(j) \in DOMAIN animations_map
                      /\ animations_map[ExportedName(j)] =
                            _convert_to_spine_animation(
                                get_animation_data(exports[j].metadata.animation_id))
                      /\ \A k \in earlier : ExportedName(k) \in DOMAIN animations_map

\* C6: in every saved animation every keyframe time of every track is at
\* most the duration of the animation.
KeyframesWithinDuration ==
    \A i \in Saved :
        \A b \in Tracks(animations[i].data) :
            \A k \in 1..Len(animations[i].data.keyframes[b]) :
                RatLeq(animations[i].data.keyframes[b][k].time,
                       animations[i].data.duration)

Structured(response) ==
    "result" \in DOMAIN response \/ "error" \in DOMAIN response

\* C7: the run loop never leaves through sys.exit(1), and every line that
\* was answered got a response with a result or an error object.
EveryRequestIsAnswered ==
    /\ pc # "crashed"
    /\ \A i \in 1..Len(out) : Structured(out[i])

\* C8: an operation that returned a value has persisted the artifact it
\* names; for an export, the returned file_path names a file of the export
\* directory.
SuccessIsPersisted ==
    ret.raised = "none" =>
        CASE ret.op = "parse_psd" ->
                get_character_metadata(ret.value.character_id) # None
          [] ret.op = "rig_character" ->
                \E r \in 1..Len(rigs) : /\ rigs[r].id = ret.value.rig_id
                                        /\ rigs[r].project # Absent
          [] ret.op = "generate_animation" ->
                get_animation_data(ret.value.animation_id) # None
          [] ret.op = "export_animation" ->
                \E i \in 1..Len(exports) :
                    /\ exports[i].id = ret.value.export_id
                    /\ ret.value.file_path.dir = exports[i].id
                    /\ ret.value.file_path.file \in DOMAIN exports[i].files
          [] OTHER -> TRUE

LimbPairs ==
    { [limb |-> "arm_right", end |-> "hand_right", ik |-> "arm_right_ik"],
      [limb |-> "arm_left", end |-> "hand_left", ik |-> "arm_left_ik"],
      [limb |-> "leg_right", end |-> "foot_right", ik |-> "leg_right_ik"],
      [limb |-> "leg_left", end |-> "foot_left", ik |-> "leg_left_ik"] }

Built == {r \in 1..Len(rigs) : rigs[r].project # Absent}

\* the keys of rigStructure.parts of a built rig
DetectedParts(r) ==
    PartKeys(_analyze_character_structure(
                 get_character_metadata(rigs[r].metadata.character_id).layers))

\* C10: the IK list of a built rig has a constraint for a limb pair exactly
\* when both parts of the pair were detected, nothing else, and no pair twice.
IkCompleteness ==
    \A r \in Built :
        LET ik == rigs[r].project.ik
        IN  /\ \A p \in LimbPairs :
                  (\E i \in 1..Len(ik) : ik[i].name = p.ik)
                  <=> {p.limb, p.end} \subseteq DetectedParts(r)
            /\ \A i \in 1..Len(ik) :
                  \E p \in LimbPairs : /\ ik[i].name = p.ik
                                       /\ ik[i].target = p.end
                                       /\ ik[i].bones = <<p.limb>>
            /\ \A i, j \in 1..Len(ik) : ik[i].name = ik[j].name => i = j

IkForSomePairs ==
    \E r \in Built :
        /\ "arm_right" \in DetectedParts(r)
        /\ "hand_right" \notin DetectedParts(r)
        /\ "hand_left" \in DetectedParts(r)
        /\ "arm_left" \notin DetectedParts(r)
        /\ {"leg_left", "foot_left"} \subseteq DetectedParts(r)
        /\ Len(rigs[r].project.ik) = 1


\* the layer tree a rig was built from
LayersOf(r) == get_character_metadata(rigs[r].metadata.character_id).layers

LimbWords == {Str.arm, Str.hand, Str.leg, Str.foot}

\* the names of the pixel layers of a tree that name a limb
LimbLayerNames(layers) ==
    LET flat == _flatten_layers(layers)
    IN  {flat[i].name : i \in {k \in 1..Len(flat) :
             \E w \in LimbWords : IsSubstring(w, Lower(flat[k].name))}}

\* C11: when the only limb layers of the tree are the pixel layers
\* "Right_Arm" and "RightHand", the skeleton has the bone arm_right under
\* body and the bone hand_right under arm_right, and the IK list is the one
\* constraint arm_right_ik on hand_right over [arm_right] with mix 1 and
\* bendPositive true.
RightArmScenario ==
    \A r \in Built :
        LimbLayerNames(LayersOf(r)) = {Str.Right_Arm, Str.RightHand}
        => LET bones == rigs[r].project.bones
               ik == rigs[r].project.ik
           IN  /\ \E i \in 1..Len(bones) : /\ bones[i].name = "arm_right"
                                           /\ bones[i].parent = "body"
               /\ \E i \in 1..Len(bones) : /\ bones[i].name = "hand_right"
                                           /\ bones[i].parent = "arm_right"
               /\ ik = << [name |-> "arm_right_ik", target |-> "hand_right",
                           bones |-> <<"arm_right">>, mix |-> 1,
                           bendPositive |-> TRUE] >>
               /\ \A i \in 1..Len(ik) :
                     ik[i].name \notin {"arm_left_ik", "leg_right_ik", "leg_left_ik"}

RightArmRigBuilt ==
    \E r \in Built :
        /\ LimbLayerNames(LayersOf(r)) = {Str.Right_Arm, Str.RightHand}
        /\ \E i \in 1..Len(LayersOf(r)) : LayersOf(r)[i].type = "group"
        /\ Len(rigs[r].project.bones) = 4

MotionProps == {"x", "y", "rotation"}

\* hair keyframe i (1-based) is derived from root keyframe i + 1
FollowsRoot(hair_kf, root_kf, duration) ==
    /\ DOMAIN hair_kf = {"time"} \cup (DOMAIN root_kf \cap MotionProps)
    /\ hair_kf.time = RatMin(RatAdd(root_kf.time, Rat(1, 10)), duration)
    /\ \A p \in DOMAIN root_kf \cap MotionProps :
          hair_kf[p] = RatMul(Rat(12, 10), root_kf[p])

\* C12: no template has a hair track, so after the emotion step there is
\* none; a saved animation with a root track of N keyframes has a hair track
\* of N - 1 keyframes, the i-th at min(root[i+1].time + 0.1, duration) with
\* exactly the x, y, rotation of root[i+1], each times 1.2; a saved
\* animation without a root track has no hair track.
HairTrackDerivation ==
    \A a \in Saved :
        LET keyframes == animations[a].data.keyframes
        IN  IF "root" \in DOMAIN keyframes
            THEN /\ "hair" \in DOMAIN keyframes
                 /\ Len(keyframes["hair"]) = Len(keyframes["root"]) - 1
                 /\ \A i \in 1..Len(keyframes["hair"]) :
                       FollowsRoot(keyframes["hair"][i], keyframes["root"][i + 1],
                                   animations[a].data.duration)
            ELSE "hair" \notin DOMAIN keyframes

\* a modulated animation whose hair track has a clamped and an unclamped time
HairClampedAndFree ==
    \E a \in Saved :
        LET data == animations[a].data
        IN  /\ animations[a].metadata.emotion # "neutral"
            /\ "hair" \in DOMAIN data.keyframes
            /\ \E i, j \in 1..Len(data.keyframes["hair"]) :
                  /\ data.keyframes["hair"][i].time = data.duration
                  /\ RatLt(data.duration,
                           RatAdd(data.keyframes["root"][i + 1].time, Rat(1, 10)))
                  /\ RatLt(data.keyframes["hair"][j].time, data.duration)
                  /\ \E p \in MotionProps :
                        /\ p \in DOMAIN data.keyframes["hair"][j]
                        /\ data.keyframes["hair"][j][p] # Zero

\* an animation without a root track was saved
NoRootNoHair ==
    \E a \in Saved : "root" \notin DOMAIN animations[a].data.keyframes

\* a line is read only when no request is pending, and reading writes nothing
ReadsWhenIdle ==
    (pc = "read" /\ pc' = "process") => (cur = NoRequest /\ out' = out)

\* stdout grows by one response at a time, written for the pending request
\* with its id, behind the responses written before
WritesForPending ==
    out' # out => /\ pc = "process" /\ pc' = "read"
                  /\ Len(out') = Len(out) + 1
                  /\ SubSeq(out', 1, Len(out)) = out
                  /\ out'[Len(out')].id = Get(cur, "id", JsonNull)

\* processing of a parsed request ends with its response, unless the run is
\* interrupted from outside
ProcessingEndsInResponse ==
    (pc = "process" /\ pc' \notin {"process", "stopped"})
    => Len(out') = Len(out) + 1

\* C13: the server reads the next request only after the response to the
\* one before is written; every parsed request gets exactly one response,
\* in request order, carrying the id of its request.
RequestAtATime ==
    [][ReadsWhenIdle /\ WritesForPending /\ ProcessingEndsInResponse]_vars

\* the two ordering conditions alone, which the run loop keeps
OrderedResponses == [][ReadsWhenIdle /\ WritesForPending]_vars

\* the canvas a rig was built for
CanvasOf(r) == get_character_metadata(rigs[r].metadata.character_id).dimensions

\* C14: in the skeleton of every built rig the first bone is root, without
\* a parent, at (width / 2, height / 2) with length 50, and it is the only
\* bone without a parent: every other bone has a parent field.
SingleRootBone ==
    \A r \in Built :
        LET bones == rigs[r].project.bones
        IN  /\ Len(bones) >= 1
            /\ bones[1] = [name |-> "root",
                           x |-> Rat(CanvasOf(r).width, 2),
                           y |-> Rat(CanvasOf(r).height, 2),
                           length |-> Num(50)]
            /\ {i \in 1..Len(bones) : "parent" \notin DOMAIN bones[i]} = {1}
            /\ \A i \in 2..Len(bones) : bones[i].name # "root"

\* a skeleton of several bones on a canvas of odd width and height
RootOnOddCanvas ==
    \E r \in Built :
        /\ Len(rigs[r].project.bones) >= 4
        /\ CanvasOf(r).width % 2 = 1
        /\ CanvasOf(r).height % 2 = 1
        /\ rigs[r].project.bones[1].x # Zero

\* C15: in every saved animation the keyframe times of each track, the
\* derived hair track included, never decrease along the list.
TimesNonDecreasing ==
    \A a \in Saved :
        \A b \in Tracks(animations[a].data) :
            LET track == animations[a].data.keyframes[b]
            IN  \A k \in 1..(Len(track) - 1) :
                    RatLeq(track[k].time, track[k + 1].time)

\* a derived hair track whose last times are tied by the clamp
HairTimesTied ==
    \E a \in Saved :
        LET data == animations[a].data
        IN  /\ "hair" \in DOMAIN data.keyframes
            /\ Len(data.keyframes["hair"]) >= 3
            /\ \E k \in 2..(Len(data.keyframes["hair"]) - 1) :
                  /\ RatLt(data.keyframes["hair"][k - 1].time,
                           data.keyframes["hair"][k].time)
                  /\ data.keyframes["hair"][k].time = data.duration
                  /\ data.keyframes["hair"][k + 1].time = data.duration

\* what a storage directory holds under an id: the entry written last
StoredUnder(directory, id) ==
    LET hits == {i \in 1..Len(directory) : directory[i].id = id}
    IN  directory[CHOOSE i \in hits : \A j \in hits : j <= i]

\* a step keeps every entry of the directory and adds entries under new ids
KeepsEntries(before, after) ==
    /\ Len(after) >= Len(before)
    /\ \A i \in 1..Len(before) : StoredUnder(after, before[i].id) = before[i]
    /\ \A j \in (Len(before) + 1)..Len(after) :
          \A i \in 1..Len(before) : after[j].id # before[i].id

\* C16: rigging a character again makes a rig under an id no stored rig
\* has, and the metadata and skeleton document of every stored rig stay as
\* they were.
ReRigKeepsRigs == [][KeepsEntries(rigs, rigs')]_vars

\* the last call rigged a character that had a rig already
ReRigged ==
    /\ ret.op = "rig_character" /\ ret.raised = "none"
    /\ Len(rigs) = 2
    /\ \A r \in 1..2 : rigs[r].project # Absent
    /\ rigs[1].metadata.character_id = rigs[2].metadata.character_id
    /\ rigs[1].id # rigs[2].id
    /\ rigs[2].id = ret.value.rig_id
    /\ Len(rigs[1].project.bones) >= 3

\* C17: no call of generate_animation, rig_character or export_animation
\* changes the data or metadata of an animation saved before, and
\* generate_animation saves under an id no saved animation has.
SavedAnimationsKept == [][KeepsEntries(animations, animations')]_vars

\* an animation was exported, and another generated, after it was saved
ExportedAndGeneratedAfter ==
    /\ Len(animations) = 2
    /\ animations[1].id # animations[2].id
    /\ animations[1].metadata.emotion # animations[2].metadata.emotion
    /\ Len(rigs) >= 1
    /\ ret.op = "export_animation" /\ ret.raised = "none"
    /\ \E i, j \in 1..Len(exports) :
          /\ i # j
          /\ exports[i].metadata.animation_id = animations[1].id
          /\ exports[j].metadata.animation_id = animations[1].id
          /\ exports[i].metadata.format = "json"

SpeedFactor ==
    [happy |-> Rat(12, 10), sad |-> Rat(7, 10), angry |-> Rat(13, 10),
     scared |-> Rat(14, 10), excited |-> Rat(15, 10)]

\* C19: the duration of an animation synthesized with an emotion is the
\* template's duration divided by 1 + (speedFactor - 1) * intensity; at
\* intensity 1.0 it is strictly shorter than the template's for happy,
\* angry, scared and excited (factor above 1) and strictly longer for sad
\* (factor below 1).
DurationFollowsSpeed ==
    \A a \in Saved :
        LET md == animations[a].metadata
            base == InitTemplates[md.animation_type].duration
            duration == animations[a].data.duration
        IN  md.emotion \in DOMAIN SpeedFactor
            => /\ duration =
                     RatDiv(base, RatAdd(One, RatMul(RatSub(SpeedFactor[md.emotion], One),
                                                     md.intensity)))
               /\ md.duration = duration
               /\ (md.intensity = One /\ md.emotion \in {"happy", "angry", "scared", "excited"})
                  => RatLt(duration, base)
               /\ (md.intensity = One /\ md.emotion = "sad")
                  => RatLt(base, duration)

\* a sad walk at intensity 1.0, slower than the walk template
SadWalkIsLonger ==
    \E a \in Saved :
        /\ animations[a].metadata.emotion = "sad"
        /\ animations[a].metadata.intensity = One
        /\ animations[a].metadata.animation_type = "walk"
        /\ RatLt(Template_walk.duration, animations[a].data.duration)

\* the fixed taxonomy: the children of each parent
FullHierarchy ==
    [root      |-> {"body"},
     body      |-> {"head", "arm_left", "arm_right", "leg_left", "leg_right"},
     arm_left  |-> {"hand_left"},
     arm_right |-> {"hand_right"},
     leg_left  |-> {"foot_left"},
     leg_right |-> {"foot_right"}]

IsFullHierarchy(hierarchy) ==
    /\ Len(hierarchy) = Cardinality(DOMAIN FullHierarchy)
    /\ {<<hierarchy[i][1], Range(hierarchy[i][2])>> : i \in 1..Len(hierarchy)}
          = {<<parent, FullHierarchy[parent]>> : parent \in DOMAIN FullHierarchy}

\* the stored layer tree of every character is the tree the run was given
TreesAsGiven ==
    IF files = {} THEN characters \in StoredCharacters
    ELSE \A c \in 1..Len(characters) :
             \E f \in files : /\ characters[c].original_file = f.name
                              /\ characters[c].layers = f.layers

ExpectedParticles(description, duration) ==
    (IF IsSubstring(Str.sparkle, description) \/ IsSubstring(Str.magic, description)
     THEN <<[type |-> "sparkle", count |-> 10, duration |-> duration,
             color |-> "#FFFF99"]>>
     ELSE <<>>)
    \o (IF IsSubstring(Str.fire, description)
        THEN <<[type |-> "fire", count |-> 20, duration |-> duration,
                color |-> "#FF5500"]>>
        ELSE <<>>)
    \o (IF IsSubstring(Str.water, description) \/ IsSubstring(Str.splash, description)
        THEN <<[type |-> "water", count |-> 15, duration |-> duration,
                color |-> "#66CCFF"]>>
        ELSE <<>>)

HasExpectedParticles(data, description) ==
    IF ExpectedParticles(description, data.duration) = <<>>
    THEN "particles" \notin DOMAIN data
    ELSE /\ "particles" \in DOMAIN data
         /\ data.particles = ExpectedParticles(description, data.duration)

SavedParticleAnnotations ==
    \A a \in Saved :
        HasExpectedParticles(animations[a].data, animations[a].metadata.description)

\* the three tables of the interpreter, in table order
MotionTable ==
    << <<Str.wave, "wave">>, <<Str.jump, "jump">>, <<Str.walk, "walk">>,
       <<Str.run, "run">>, <<Str.idle, "idle">> >>
EmotionTable ==
    << <<Str.happy, "happy">>, <<Str.sad, "sad">>, <<Str.angry, "angry">>,
       <<Str.scared, "scared">>, <<Str.excited, "excited">> >>
IntensityTable ==
    << <<Str.very, Rat(15, 10)>>, <<Str.extremely, Rat(20, 10)>>,
       <<Str.slightly, Rat(7, 10)>>, <<Str.barely, Rat(5, 10)>>,
       <<Str.incredibly, Rat(20, 10)>>, <<Str.super, Rat(18, 10)>>,
       <<Str.little, Rat(6, 10)>> >>

\* value is what first-hit-wins in table order gives for the text
IsFirstHit(table, text, default, value) ==
    \/ /\ \A i \in 1..Len(table) : ~IsSubstring(table[i][1], text)
       /\ value = default
    \/ \E i \in 1..Len(table) :
          /\ IsSubstring(table[i][1], text)
          /\ \A j \in 1..(i - 1) : ~IsSubstring(table[j][1], text)
          /\ value = table[i][2]

\* C22: for every text generated from, the recorded motion, emotion and
\* intensity are the first hits, in table order, of the three tables on the
\* lower-cased text, with the defaults idle, neutral and 1.0, and the call
\* returned a value.
FirstHitWins ==
    /\ \A a \in Saved :
          LET md == animations[a].metadata
          IN  /\ IsFirstHit(MotionTable, Lower(md.description), "idle",
                            md.animation_type)
              /\ IsFirstHit(EmotionTable, Lower(md.description), "neutral", md.emotion)
              /\ IsFirstHit(IntensityTable, Lower(md.description), One, md.intensity)
    /\ ret.op = "generate_animation" => ret.raised = "none"

\* a text whose second motion word comes earlier in the table than its first
LaterWordWins ==
    \E a \in Saved :
        /\ animations[a].metadata.description
              \in {Join(<<Str.idle, Str.jump>>), Join(<<Str.run, Str.Jump>>)}
        /\ animations[a].metadata.animation_type = "jump"

\* the energy factor and the base expression of each emotion
EnergyFactor ==
    [happy |-> Rat(13, 10), sad |-> Rat(6, 10), angry |-> Rat(15, 10),
     scared |-> Rat(11, 10), excited |-> Rat(18, 10)]
BaseExpression ==
    [happy |-> "happy", sad |-> "sad", angry |-> "angry", scared |-> "scared",
     excited |-> "excited"]

Modified == {a \in Saved : animations[a].metadata.emotion \in DOMAIN EnergyFactor}
TemplateOf(a) == InitTemplates[animations[a].metadata.animation_type]

\* keyframe for keyframe, a track has the fields and the times of the
\* template's track
SameShape(track, template_track) ==
    /\ Len(track) = Len(template_track)
    /\ \A k \in 1..Len(track) : /\ DOMAIN track[k] = DOMAIN template_track[k]
                                /\ track[k].time = template_track[k].time

\* C23: with an emotion that has a modifier, the tracks of the animation
\* before the hair derivation are the template's, with the template's
\* keyframe counts and times, and in every track but face each rotation, x
\* and y that is present and non-zero is the template's value times
\* 1 + (energyFactor - 1) * intensity, while zero and absent fields stay.
EnergyScaling ==
    \A a \in Modified :
        LET md == animations[a].metadata
            keyframes == animations[a].data.keyframes
            energy == RatAdd(One, RatMul(RatSub(EnergyFactor[md.emotion], One),
                                         md.intensity))
        IN  /\ DOMAIN keyframes \ {"hair"} = DOMAIN TemplateOf(a).keyframes
            /\ \A b \in DOMAIN TemplateOf(a).keyframes :
                  /\ SameShape(keyframes[b], TemplateOf(a).keyframes[b])
                  /\ b # "face" =>
                        \A k \in 1..Len(keyframes[b]) :
                            \A p \in MotionProps \cap DOMAIN keyframes[b][k] :
                                keyframes[b][k][p] =
                                    IF TemplateOf(a).keyframes[b][k][p] = Zero
                                    THEN Zero
                                    ELSE RatMul(TemplateOf(a).keyframes[b][k][p], energy)

\* a sad wave at an intensity other than 1.0: damped x, y and rotation next
\* to fields that stay zero
DampedWave ==
    \E a \in Modified :
        /\ animations[a].metadata.emotion = "sad"
        /\ animations[a].metadata.intensity # One
        /\ animations[a].metadata.animation_type = "wave"
        /\ animations[a].data.keyframes["arm_right"][1].rotation = Zero
        /\ animations[a].data.keyframes["arm_right"][2].rotation
              # Template_wave.keyframes["arm_right"][2].rotation

\* C24: with an emotion that has a modifier, a face keyframe that is
\* "neutral" in the template carries the emotion's base expression, every
\* other face keyframe keeps the template's expression, and the face
\* keyframe times are the template's.
FaceExpressionRewrite ==
    \A a \in Modified :
        LET face == animations[a].data.keyframes["face"]
            template_face == TemplateOf(a).keyframes["face"]
        IN  /\ SameShape(face, template_face)
            /\ \A k \in 1..Len(face) :
                  face[k].expression =
                      IF template_face[k].expression = "neutral"
                      THEN BaseExpression[animations[a].metadata.emotion]
                      ELSE template_face[k].expression

\* an angry idle: the blink stays between rewritten keyframes
BlinkKept ==
    \E a \in Modified :
        /\ animations[a].metadata.emotion = "angry"
        /\ animations[a].metadata.animation_type = "idle"
        /\ animations[a].data.keyframes["face"][1].expression = "angry"
        /\ animations[a].data.keyframes["face"][2].expression = "blink"

\* the part keys and their names, in table order
PartTable ==
    << <<"head",       {Str.head, Str.face, Str.hair}>>,
       <<"body",       {Str.body, Str.torso, Str.chest}>>,
       <<"arm_right",  {Str.arm_right, Str.right_arm, Str.rightarm}>>,
       <<"arm_left",   {Str.arm_left, Str.left_arm, Str.leftarm}>>,
       <<"hand_right", {Str.hand_right, Str.right_hand, Str.righthand}>>,
       <<"hand_left",  {Str.hand_left, Str.left_hand, Str.lefthand}>>,
       <<"leg_right",  {Str.leg_right, Str.right_leg, Str.rightleg}>>,
       <<"leg_left",   {Str.leg_left, Str.left_leg, Str.leftleg}>>,
       <<"foot_right", {Str.foot_right, Str.right_foot, Str.rightfoot}>>,
       <<"foot_left",  {Str.foot_left, Str.left_foot, Str.leftfoot}>> >>

Matches(i, name) == \E w \in PartTable[i][2] : IsSubstring(w, Lower(name))

\* entry i of the table is the first one the layer name matches
FirstMatch(i, name) ==
    Matches(i, name) /\ \A j \in 1..(i - 1) : ~Matches(j, name)

Carrying(track, fields) == {k \in 1..Len(track) : DOMAIN track[k] \cap fields # {}}

\* the index in I that has n indices of I up to and including itself
Nth(I, n) == CHOOSE i \in I : Cardinality({j \in I : j <= i}) = n

FieldOr(keyframe, field, default) ==
    IF field \in DOMAIN keyframe THEN keyframe[field] ELSE default

\* the rotate and translate lists the keyframes of a track call for
ExpectedRotate(track) ==
    [n \in 1..Cardinality(Carrying(track, {"rotation"})) |->
        [time |-> track[Nth(Carrying(track, {"rotation"}), n)].time,
         angle |-> track[Nth(Carrying(track, {"rotation"}), n)].rotation,
         curve |-> "stepped"]]
ExpectedTranslate(track) ==
    [n \in 1..Cardinality(Carrying(track, {"x", "y"})) |->
        [time |-> track[Nth(Carrying(track, {"x", "y"}), n)].time,
         x |-> FieldOr(track[Nth(Carrying(track, {"x", "y"}), n)], "x", Zero),
         y |-> FieldOr(track[Nth(Carrying(track, {"x", "y"}), n)], "y", Zero),
         curve |-> "stepped"]]

ConvertsTracks(animation_data, spine_animation) ==
    /\ DOMAIN spine_animation.bones
          = {b \in DOMAIN animation_data.keyframes :
                b # "face" /\ Carrying(animation_data.keyframes[b], MotionProps) # {}}
    /\ \A b \in DOMAIN spine_animation.bones :
          /\ spine_animation.bones[b].rotate
                = ExpectedRotate(animation_data.keyframes[b])
          /\ spine_animation.bones[b].translate
                = ExpectedTranslate(animation_data.keyframes[b])

ExportedTrackConversion ==
    \A i \in 1..Len(exports) :
        exports[i].metadata.format = "json"
        => ConvertsTracks(get_animation_data(exports[i].metadata.animation_id),
                          exports[i].files[<<ExportedName(i), "json">>]
                              .animations[ExportedName(i)])

\* what the storage directory holds
Storage == <<characters, rigs, animations, exports>>

UnknownIdMessages ==
    {"Character not found", "Animation not found", "No rig found for character"}

\* a call that ends in one of the three errors leaves the storage alone
RefusalKeepsStorage ==
    (ret'.raised = "ValueError" /\ ret'.message \in UnknownIdMessages)
    => UNCHANGED Storage

\* a rig entry is only added for a stored character, an export entry only
\* for a saved animation and a character that has a rig
EntriesNeedKnownIds ==
    /\ rigs' # rigs => get_character_metadata(rigs'[Len(rigs')].id.of) # None
    /\ exports' # exports
       => /\ get_animation_metadata(exports'[Len(exports')].metadata.animation_id) # None
          /\ RigsForCharacter(exports'[Len(exports')].metadata.character_id) # {}

\* where every id is unknown the call raises, with the animation's message
\* when both the animation and the rig are missing
UnknownIdsRaise ==
    /\ (ret'.op = "rig_character" /\ characters = <<>>)
       => ret' = Raise("rig_character", "ValueError", "Character not found")
    /\ (ret'.op = "export_animation" /\ animations = <<>>)
       => ret' = Raise("export_animation", "ValueError", "Animation not found")
    /\ (ret'.op = "export_animation" /\ animations # <<>>
        /\ \A i \in 1..Len(rigs) : rigs[i].metadata = Absent)
       => /\ ret'.raised = "ValueError"
          /\ ret'.message \in {"Animation not found", "No rig found for character"}

\* C27: rig_character for a character id without stored metadata, and
\* export_animation for an unknown animation id or a character without a
\* rig, raise an error and leave the persisted characters, rigs, animations
\* and exports as they were; the animation is looked up before the rig.
UnknownIdsChangeNothing ==
    [][RefusalKeepsStorage /\ EntriesNeedKnownIds /\ UnknownIdsRaise]_vars

\* an export has been refused for its animation id while a rig and an
\* animation were there
UnknownAnimationRefused ==
    /\ ret = Raise("export_animation", "ValueError", "Animation not found")
    /\ rigs # <<>>
    /\ animations # <<>>

\* the tool calls of the server that name an unknown id
UnknownSetupCalls ==
    {CallTool(i, "setup_character", JsonObject(Members1("character_id", JsonText(c)))) :
        i \in RequestIds,
        c \in {x \in CharacterArgs : get_character_metadata(x) = None}}
UnknownExportArguments ==
    {m \in ExportArguments :
        \/ get_animation_metadata(m["animation_id"].text) = None
        \/ RigsForCharacter(m["character_id"].text) = {}}
UnknownExportCalls ==
    {CallTool(i, "export_animation", JsonObject(m)) :
        i \in RequestIds, m \in UnknownExportArguments}
    \cup {CallTool(i, "export_animation",
                   JsonObject(m @@ Members1("format", JsonString(f)))) :
              i \in RequestIds, m \in UnknownExportArguments, f \in Formats}

\* the server answers such a call with a result flagged isError and leaves
\* the storage as it was
ServerReportsUnknownIds ==
    [][(pc = "process" /\ pc' = "read"
        /\ cur \in UnknownSetupCalls \cup UnknownExportCalls)
       => /\ out'[Len(out')] = ResultResponse(Get(cur, "id", JsonNull), _error_response)
          /\ UNCHANGED Storage]_vars

BoneNames(bones) == {bones[i].name : i \in 1..Len(bones)}

\* C28: in the skeleton of every built rig each bone other than root names
\* as parent a bone of the same list, no two bones share a name, and there
\* is one bone per detected part besides root.
BoneReferentialIntegrity ==
    \A r \in Built :
        LET bones == rigs[r].project.bones
        IN  /\ \A i \in 2..Len(bones) : bones[i].parent \in BoneNames(bones)
            /\ \A i, j \in 1..Len(bones) : bones[i].name = bones[j].name => i = j
            /\ Len(bones) = 1 + Cardinality(DetectedParts(r))

\* the two other conditions alone, which every built skeleton meets
DistinctBonePerPart ==
    \A r \in Built :
        LET bones == rigs[r].project.bones
        IN  /\ \A i, j \in 1..Len(bones) : bones[i].name = bones[j].name => i = j
            /\ Len(bones) = 1 + Cardinality(DetectedParts(r))

\* the document of a json export and the animation the export added to it
ExportedDocument(i) == exports[i].files[<<ExportedName(i), "json">>]
ExportedAnimation(i) == ExportedDocument(i).animations[ExportedName(i)]

\* C29: in every exported document each key of the exported animation's
\* bones map is the name of a bone of the document's bone list and each key
\* of its slots map is the name of a slot of the document's slot list.
AnimationReferencesResolve ==
    \A i \in 1..Len(exports) :
        exports[i].metadata.format = "json"
        => /\ DOMAIN ExportedAnimation(i).bones
                 \subseteq BoneNames(ExportedDocument(i).bones)
           /\ DOMAIN ExportedAnimation(i).slots
                 \subseteq {ExportedDocument(i).slots[j].name :
                               j \in 1..Len(ExportedDocument(i).slots)}

\* the metadata of the export a step adds
NewExport == exports'[Len(exports')].metadata

\* the export is of a character imported and rigged before and of an
\* animation saved before
ExportsKnownIds ==
    exports' # exports
    => /\ get_character_metadata(NewExport.character_id) # None
       /\ RigsForCharacter(NewExport.character_id) # {}
       /\ get_animation_metadata(NewExport.animation_id) # None

\* the animation was generated for the character of the export
ExportsOwnAnimation ==
    exports' # exports
    => get_animation_metadata(NewExport.animation_id).character_id
          = NewExport.character_id

\* C30: export_animation(c, a) succeeds only if c was imported and rigged
\* before and a was generated before for the same character c.
ExportOwnership == [][ExportsKnownIds /\ ExportsOwnAnimation]_vars

\* the ordering alone, which every export keeps
ExportOrdering == [][ExportsKnownIds]_vars
====
